---- MODULE Spec2Model ----
(***************************************************************************)
(* A model of the statement-execution core of renpy/ast.py: the node       *)
(* arena, the load-time chaining pass, and execute() of the control        *)
(* transfer, menu and translation statements, driven by the execution      *)
(* context's fetch-execute loop.                                            *)
(***************************************************************************)
EXTENDS Integers, Sequences, FiniteSets, TLC

VARIABLES
    nodes,    \* the script's node arena: node id -> node (fields of ast.Node and subclasses)
    ctx,      \* renpy.game.context(): next_node, current, return_stack, dynamic_stack, ...
    store,    \* renpy.store: x, _args, _kwargs, _return
    game,     \* persistent._seen_translates, seen_translates_count, new_translates_count
    config,   \* renpy.config / preferences: language, hash_seen, narrator_menu, developer
    obs,      \* what the last execute() did: raised, next_node() calls, evaluations, collaborator calls
    hist      \* history: the calls not yet returned from, the identifiers run so far

vars == <<nodes, ctx, store, game, config, obs, hist>>

----------------------------------------------------------------------------
\* Bounds of the model.

\* Deepest return stack explored: a Call is not taken beyond it.
MaxStack == 2

\* Store values are 0..MaxVal.
MaxVal == 1

----------------------------------------------------------------------------
\* Basic values.

\* The absent node (Python None in a next / after / next_node slot).
None == 0

\* Python None in a string slot (language, identifier, alternate, label).
NoneStr == "None"

\* Python None in an integer slot of the store (_return) or a dynamic frame.
NoneVal == -1

Values == 0 .. MaxVal

\* The store variables that labels bind as parameters.
DynVars == {"x"}

\* A node's name: the label string of a Label, else the (file, version, serial) triple,
\* of which the serial is kept.
LabelName(l) == [label |-> l, serial |-> 0]

SerialName(i) == [label |-> "", serial |-> i]

\* renpy.store._args / _kwargs: None, or the evaluated positional arguments.
ArgsNone == [isnone |-> TRUE, pos |-> <<>>]

ArgsOf(v) == [isnone |-> FALSE, pos |-> <<v>>]

\* ArgumentInfo.evaluate() returns (args, kwargs); kwargs is an empty dict here.
KwargsEmpty == [isnone |-> FALSE, pos |-> <<>>]

\* Label.parameters: None, or one parameter x with an optional default.
NoParams == [present |-> FALSE, default |-> NoneVal]

Params(d) == [present |-> TRUE, default |-> d]

----------------------------------------------------------------------------
\* Node constructors (the __init__ of each variant). Every node carries every
\* field, so that the arena is one function; a variant reads only its own.

Node(k) ==
    [kind |-> k, name |-> SerialName(0), next |-> None, after |-> None,
     block |-> <<>>, entries |-> <<>>, items |-> <<>>,
     condition |-> "", target |-> "", expression |-> FALSE,
     arguments |-> FALSE, item_arguments |-> <<>>, parameters |-> NoParams,
     code |-> NoneVal, with_ |-> NoneStr,
     who |-> NoneStr, what |-> "",
     attributes |-> NoneStr, temporary_attributes |-> NoneStr,
     store |-> "store", varname |-> "",
     identifier |-> NoneStr, alternate |-> NoneStr, language |-> NoneStr,
     priority |-> 0]

Pass == Node("Pass")

Python(v) == [Node("Python") EXCEPT !.code = v]

Say(who, what) == [Node("Say") EXCEPT !.who = who, !.what = what]

InitNode(block, priority) == [Node("Init") EXCEPT !.block = block, !.priority = priority]

Label(name, block, parameters) ==
    [Node("Label") EXCEPT !.name = LabelName(name), !.block = block, !.parameters = parameters]

Call(label, expression, arguments) ==
    [Node("Call") EXCEPT !.target = label, !.expression = expression, !.arguments = arguments]

Return(expression) == [Node("Return") EXCEPT !.expression = expression]

Jump(target, expression) == [Node("Jump") EXCEPT !.target = target, !.expression = expression]

While(condition, block) == [Node("While") EXCEPT !.condition = condition, !.block = block]

\* entries: a sequence of [condition, block].
If(entries) == [Node("If") EXCEPT !.entries = entries]

\* items: a sequence of [label, condition, block, hasblock]; hasblock FALSE is block None.
Menu(items, with_, item_arguments) ==
    [Node("Menu") EXCEPT !.items = items, !.with_ = with_, !.item_arguments = item_arguments]

Translate(identifier, language, block, alternate) ==
    [Node("Translate") EXCEPT !.identifier = identifier, !.language = language,
                              !.block = block, !.alternate = alternate]

TranslateSay(who, what, identifier, language, alternate) ==
    [Node("TranslateSay") EXCEPT !.who = who, !.what = what, !.identifier = identifier,
                                 !.language = language, !.alternate = alternate]

EndTranslate == Node("EndTranslate")

TranslateBlock(language, block) ==
    [Node("TranslateBlock") EXCEPT !.language = language, !.block = block]

Default(store_name, name, expr) ==
    [Node("Default") EXCEPT !.store = store_name, !.varname = name, !.code = expr]

Entry(c, b) == [condition |-> c, block |-> b]

\* A user-defined statement: block is its code_block (empty for None), entries are
\* the blocks of its subparses.
UserStatement(code_block, subparses) ==
    [Node("UserStatement") EXCEPT !.block = code_block, !.entries = subparses]

Item(l, c, b) == [label |-> l, condition |-> c, block |-> b, hasblock |-> TRUE]

Caption(l, c) == [label |-> l, condition |-> c, block |-> <<>>, hasblock |-> FALSE]

----------------------------------------------------------------------------
\* Chaining (load time).

RECURSIVE chain(_, _, _)
RECURSIVE chain_from(_, _, _, _)
RECURSIVE chain_entries(_, _, _, _)
RECURSIVE chain_items(_, _, _, _)

\* chain_block, were it to leave the last node of the block unchained.
chain_block_open(ns, block, next) ==
    IF block = <<>> THEN ns ELSE chain_from(ns, block, 1, None)

\* chain_block: node i of the block is chained with node i+1, the last with next.
chain_block(ns, block, next) ==
    IF block = <<>> THEN ns ELSE chain_from(ns, block, 1, next)

chain_from(ns, block, i, next) ==
    IF i = Len(block)
    THEN chain(ns, block[i], next)
    ELSE chain_from(chain(ns, block[i], block[i + 1]), block, i + 1, next)

\* If.chain: every entry's block continues after the If.
chain_entries(ns, entries, i, next) ==
    IF i > Len(entries) THEN ns
    ELSE chain_entries(chain_block(ns, entries[i].block, next), entries, i + 1, next)

\* Menu.chain: every non-empty choice block continues after the menu.
chain_items(ns, items, i, next) ==
    IF i > Len(items) THEN ns
    ELSE chain_items(IF items[i].block # <<>>
                     THEN chain_block(ns, items[i].block, next)
                     ELSE ns,
                     items, i + 1, next)

\* Translate.chain: self.after = next
Translate_after_block(ns, n, next) == [ns EXCEPT ![n].after = ns[n].next]

Translate_after(ns, n, next) == [ns EXCEPT ![n].after = next]

\* Node.chain and its overrides.
chain(ns, n, next) ==
    LET k == ns[n].kind
        set_next(x) == [ns EXCEPT ![n].next = x]
    IN  CASE k = "Label" ->
               IF ns[n].block # <<>>
               THEN chain_block(set_next(ns[n].block[1]), ns[n].block, next)
               ELSE set_next(next)
          [] k \in {"Init", "TranslateBlock"} ->
               chain_block(set_next(next), ns[n].block, None)
          [] k \in {"Return", "Jump"} ->
               set_next(None)
          [] k = "Menu" ->
               chain_items(set_next(next), ns[n].items, 1, next)
          [] k = "While" ->
               chain_block(set_next(next), ns[n].block, n)
          [] k = "If" ->
               chain_entries(set_next(next), ns[n].entries, 1, next)
          [] k = "UserStatement" ->
               chain_entries(chain_block(set_next(next), ns[n].block, next),
                             ns[n].entries, 1, next)
          [] k = "Translate" ->
               LET a == IF ns[n].block # <<>>
                        THEN chain_block(set_next(ns[n].block[1]), ns[n].block, next)
                        ELSE set_next(next)
               IN  Translate_after(a, n, next)
          [] OTHER ->
               set_next(next)

----------------------------------------------------------------------------
\* The script: name map, translator tables, loading.

Range(f) == {f[i] : i \in DOMAIN f}

\* renpy.game.script.lookup_or_none: the node of that name, or None.
lookup_or_none(ns, name) ==
    IF \E i \in DOMAIN ns : ns[i].name = name
    THEN CHOOSE i \in DOMAIN ns : ns[i].name = name
    ELSE None

has_label(ns, l) == lookup_or_none(ns, LabelName(l)) # None

\* The name of node n (Node.name); the absent node has no name.
NameOf(ns, n) == IF n = None THEN SerialName(0) ELSE ns[n].name

\* The parser's name assignment: a Label is named by its label, every other
\* node by its serial.
assign_names(raw) ==
    [i \in DOMAIN raw |->
        IF raw[i].kind = "Label" THEN raw[i] ELSE [raw[i] EXCEPT !.name = SerialName(i)]]

\* The translator's tables: the canonical translate node of an identifier (also
\* registered under its alternate identifier) and the per-language ones.
IsTranslate(ns, i) == ns[i].kind \in {"Translate", "TranslateSay"}

IsDefault(ns, i, identifier) ==
    /\ IsTranslate(ns, i)
    /\ ns[i].language = NoneStr
    /\ identifier # NoneStr
    /\ (ns[i].identifier = identifier \/ ns[i].alternate = identifier)

default_translates(ns, identifier) ==
    IF \E i \in DOMAIN ns : IsDefault(ns, i, identifier)
    THEN CHOOSE i \in DOMAIN ns : IsDefault(ns, i, identifier)
    ELSE None

language_translates(ns, identifier, language) ==
    IF \E i \in DOMAIN ns : IsTranslate(ns, i) /\ ns[i].identifier = identifier
                            /\ ns[i].language = language
    THEN CHOOSE i \in DOMAIN ns : IsTranslate(ns, i) /\ ns[i].identifier = identifier
                                  /\ ns[i].language = language
    ELSE None

\* Translator.chain_translates: the block of a language translate continues at
\* the end of the canonical translate of its identifier ("When control normally
\* leaves a translate statement, in any language, it goes to the end of the
\* translate statement in the None language").
RECURSIVE chain_translates(_, _)
chain_translates(ns, todo) ==
    IF todo = {} THEN ns
    ELSE LET i == CHOOSE j \in todo : TRUE
             d == default_translates(ns, ns[i].identifier)
             after == IF ns[d].kind = "TranslateSay" THEN ns[d].next ELSE ns[d].after
             chained == IF ns[i].kind = "TranslateSay"
                        THEN [ns EXCEPT ![i].next = after]
                        ELSE chain_block(ns, ns[i].block, after)
         IN  chain_translates(IF d = None THEN ns ELSE chained, todo \ {i})

\* Script loading: names, the chaining of the top-level block, the translates.
load_script(raw, toplevel) ==
    LET ns == chain_block(assign_names(raw), toplevel, None)
    IN  chain_translates(ns, {i \in DOMAIN ns : IsTranslate(ns, i) /\ ns[i].language # NoneStr})

\* The Init nodes of the script, by priority, then lexical order.
RECURSIVE init_order(_, _)
init_order(ns, todo) ==
    IF todo = {} THEN <<>>
    ELSE LET i == CHOOSE j \in todo :
                     \A k \in todo : ns[j].priority < ns[k].priority
                                     \/ (ns[j].priority = ns[k].priority /\ j <= k)
         IN  <<i>> \o init_order(ns, todo \ {i})

initcode(ns) == init_order(ns, {i \in DOMAIN ns : ns[i].kind = "Init"})

----------------------------------------------------------------------------
\* The statement that follows a node in program order, read off the tree (the
\* blocks), not off the next pointers.

\* The blocks of the tree, each with its owner (None owns the top-level block).
Blocks(ns, toplevel) ==
    {[owner |-> None, seq |-> toplevel]}
    \cup {[owner |-> p, seq |-> ns[p].block] : p \in DOMAIN ns}
    \cup UNION {{[owner |-> p, seq |-> ns[p].entries[e].block] : e \in DOMAIN ns[p].entries} :
                  p \in DOMAIN ns}
    \cup UNION {{[owner |-> p, seq |-> ns[p].items[e].block] : e \in DOMAIN ns[p].items} :
                  p \in DOMAIN ns}

RECURSIVE Follower(_, _, _)
Follower(ns, toplevel, n) ==
    LET holders == {b \in Blocks(ns, toplevel) : n \in Range(b.seq)}
    IN  IF holders = {} THEN None
        ELSE LET b == CHOOSE h \in holders : TRUE
                 i == CHOOSE j \in DOMAIN b.seq : b.seq[j] = n
             IN  IF i < Len(b.seq) THEN b.seq[i + 1]
                 ELSE IF b.owner = None THEN None
                 ELSE IF ns[b.owner].kind = "While" THEN b.owner
                 ELSE IF ns[b.owner].kind \in {"Init", "TranslateBlock"} THEN None
                 ELSE IF ns[b.owner].kind = "Translate" /\ ns[b.owner].language # NoneStr
                      THEN Follower(ns, toplevel,
                                    default_translates(ns, ns[b.owner].identifier))
                 ELSE Follower(ns, toplevel, b.owner)

----------------------------------------------------------------------------
\* The machine: everything an execute() reads or writes, as one record, so that
\* an execute() is a function from machine to machine.

Machine == [nodes |-> nodes, ctx |-> ctx, store |-> store, game |-> game,
            config |-> config, obs |-> obs, hist |-> hist]

Becomes(m) ==
    /\ nodes' = m.nodes
    /\ ctx' = m.ctx
    /\ store' = m.store
    /\ game' = m.game
    /\ config' = m.config
    /\ obs' = m.obs
    /\ hist' = m.hist

\* Nothing observed yet.
NoObs == [op |-> "none", raised |-> FALSE, nn |-> <<>>, evals |-> <<>>, lookups |-> <<>>,
          said |-> <<>>, narration |-> <<>>, choices |-> <<>>, item_arguments |-> <<>>,
          presented |-> <<>>, chose |-> FALSE, choice |-> None,
          pushed |-> FALSE, popped |-> FALSE,
          label_out |-> [ok |-> FALSE, val |-> ""], cond_outs |-> <<>>,
          predicted |-> <<>>, failed |-> FALSE, scry |-> <<>>, inp |-> <<>>]

\* next_node(n): the next node that should be executed.
next_node(m, n) == [m EXCEPT !.ctx.next_node = n, !.obs.nn = Append(@, n)]

\* An exception leaves execute(); the session's error boundary catches it.
Raise(m) == [m EXCEPT !.obs.raised = TRUE]

\* renpy.python.py_eval(expr) was called (its outcome is an input of the action).
Evaluated(m, expr) == [m EXCEPT !.obs.evals = Append(@, expr)]

\* Context.run, before each node.execute(): the node becomes current, the
\* abnormal flag is latched into last_abnormal and cleared, next_node is cleared.
run_fetch(m, n, op) ==
    [m EXCEPT !.ctx.current = n,
              !.ctx.last_abnormal = m.ctx.abnormal,
              !.ctx.abnormal = FALSE,
              !.ctx.next_node = None,
              !.obs = [NoObs EXCEPT !.op = op]]

----------------------------------------------------------------------------
\* Execution context operations (renpy.execution.Context).

EmptyFrame == [v \in DynVars |-> NoneVal]

\* Context.call: resolve the label, push the return site and a dynamic frame.
\* An unknown label raises with the stacks as they were.
ctx_call(m, label, return_site) ==
    LET target == lookup_or_none(m.nodes, LabelName(label))
    IN  IF target = None THEN Raise(m)
        ELSE [m EXCEPT !.ctx.return_stack = Append(@, return_site),
                       !.ctx.dynamic_stack = Append(@, EmptyFrame),
                       !.obs.pushed = TRUE]

\* Context.lookup_return(pop=True): the node named by the top of the return
\* stack, which is popped.
ctx_lookup_return(m) ==
    LET rs == m.ctx.return_stack
    IN  lookup_or_none(m.nodes, rs[Len(rs)])

ctx_pop_return(m) ==
    [m EXCEPT !.ctx.return_stack = SubSeq(@, 1, Len(@) - 1), !.obs.popped = TRUE]

\* Context.make_dynamic: save the current value of each variable in the top frame,
\* once per frame.
ctx_make_dynamic(m, names) ==
    LET ds == m.ctx.dynamic_stack
        top == ds[Len(ds)]
        saved == [v \in DynVars |->
                     IF v \in names /\ top[v] = NoneVal THEN m.store[v] ELSE top[v]]
    IN  IF ds = <<>> THEN m ELSE [m EXCEPT !.ctx.dynamic_stack[Len(ds)] = saved]

\* Context.pop_dynamic: pop the top frame and restore what it saved.
ctx_pop_dynamic(m) ==
    LET ds == m.ctx.dynamic_stack
        top == ds[Len(ds)]
    IN  IF ds = <<>> THEN m
        ELSE [m EXCEPT !.ctx.dynamic_stack = SubSeq(ds, 1, Len(ds) - 1),
                       !.store = [v \in DOMAIN m.store |->
                                     IF v \in DynVars /\ top[v] # NoneVal
                                     THEN top[v] ELSE m.store[v]]]

\* renpy.parameter.apply_arguments: the values bound to the parameters, or a
\* failure when arguments arrive without a parameter list, or too many arrive.
apply_fails(parameters, args) ==
    \/ (~parameters.present /\ ~args.isnone /\ args.pos # <<>>)
    \/ (parameters.present /\ ~args.isnone /\ Len(args.pos) > 1)
    \/ (parameters.present /\ (args.isnone \/ args.pos = <<>>)
        /\ parameters.default = NoneVal)

apply_arguments(parameters, args) ==
    IF ~parameters.present THEN [v \in {} |-> 0]
    ELSE [v \in DynVars |->
             IF ~args.isnone /\ args.pos # <<>> THEN args.pos[1] ELSE parameters.default]

----------------------------------------------------------------------------
\* Outcomes of the evaluator (py_eval, ArgumentInfo.evaluate, py_exec): a value,
\* or an exception.

Ok(v) == [ok |-> TRUE, val |-> v]

Fails(v) == [ok |-> FALSE, val |-> v]

CondOutcomes == {Ok(TRUE), Ok(FALSE), Fails(FALSE)}

ValueOutcomes == {Ok(v) : v \in Values} \cup {Fails(0)}

\* One outcome when the statement evaluates nothing.
Unused(outcomes, used) == IF used THEN outcomes ELSE {CHOOSE o \in outcomes : o.ok}

----------------------------------------------------------------------------
\* execute() of the straight-line and control-transfer statements.

\* Pass.execute
Pass_execute_forgetful(m, n) == m

Pass_execute(m, n) == next_node(m, m.nodes[n].next)

\* Init.execute, TranslateBlock.execute: normal execution skips the block.
Init_execute_entering(m, n) == next_node(m, m.nodes[n].block[1])

Init_execute(m, n) == next_node(m, m.nodes[n].next)

\* Python.execute: next_node first, then the code ($ x = code) runs or raises.
Python_execute(m, n, ran) ==
    LET m1 == next_node(m, m.nodes[n].next)
    IN  IF ran THEN [m1 EXCEPT !.store.x = m.nodes[n].code] ELSE Raise(m1)

\* The pending call arguments are cleared once the label has taken them.
Label_clear_arguments_kept(m) == m

Label_clear_arguments(m) == [m EXCEPT !.store._args = ArgsNone, !.store._kwargs = ArgsNone]

\* Label.execute: bind the pending arguments to the parameters as dynamic
\* variables, then clear the pending arguments.
Label_execute(m, n) ==
    LET self == m.nodes[n]
        m1 == next_node(m, self.next)
        values == apply_arguments(self.parameters, m.store._args)
        m2 == ctx_make_dynamic(m1, DOMAIN values)
        m3 == [m2 EXCEPT !.store = [v \in DOMAIN m2.store |->
                                      IF v \in DOMAIN values THEN values[v] ELSE m2.store[v]]]
    IN  IF apply_fails(self.parameters, m.store._args) THEN Raise(m1)
        ELSE Label_clear_arguments(m3)

\* The return site a Call pushes: the name of the statement chained after it.
Call_return_site_self(ns, n) == NameOf(ns, n)

Call_return_site(ns, n) == NameOf(ns, ns[n].next)

\* What Call.execute does to the context once the call is made: the label is
\* the next node and the transfer is abnormal.
Call_transfer_unmarked(m, rv) == next_node(m, rv)

Call_transfer(m, rv) == [next_node(m, rv) EXCEPT !.ctx.abnormal = TRUE]

\* Call.execute, were the arguments evaluated before the call is made.
Call_execute_arguments_first(m, n, label_out, args_out) ==
    LET self == m.nodes[n]
        m1 == IF self.expression THEN Evaluated(m, self.target) ELSE m
        label == IF self.expression THEN label_out.val ELSE self.target
        m2 == ctx_call(m1, label, Call_return_site(m.nodes, n))
        m3 == Call_transfer(m2, lookup_or_none(m.nodes, LabelName(label)))
    IN  IF self.expression /\ ~label_out.ok THEN Raise(m1)
        ELSE IF self.next = None THEN Raise(m1)
        ELSE IF self.arguments /\ ~args_out.ok THEN Raise(Evaluated(m1, "arguments"))
        ELSE IF m2.obs.raised THEN m2
        ELSE IF self.arguments
             THEN [Evaluated(m3, "arguments") EXCEPT !.store._args = ArgsOf(args_out.val),
                                                     !.store._kwargs = KwargsEmpty]
             ELSE [m3 EXCEPT !.store._args = ArgsNone, !.store._kwargs = ArgsNone]

\* Call.execute
Call_execute(m, n, label_out, args_out) ==
    LET self == m.nodes[n]
        m1 == IF self.expression THEN Evaluated(m, self.target) ELSE m
        label == IF self.expression THEN label_out.val ELSE self.target
        m2 == ctx_call(m1, label, Call_return_site(m.nodes, n))
        m3 == Call_transfer(m2, lookup_or_none(m.nodes, LabelName(label)))
    IN  IF self.expression /\ ~label_out.ok THEN Raise(m1)
        ELSE IF self.next = None THEN Raise(m1)
        ELSE IF m2.obs.raised THEN m2
        ELSE IF self.arguments
             THEN IF args_out.ok
                  THEN [Evaluated(m3, "arguments") EXCEPT !.store._args = ArgsOf(args_out.val),
                                                          !.store._kwargs = KwargsEmpty]
                  ELSE Raise(Evaluated(m3, "arguments"))
             ELSE [m3 EXCEPT !.store._args = ArgsNone, !.store._kwargs = ArgsNone]

\* The two steps that end Return.execute.
Return_transfer_keep_scope(m) == next_node(ctx_pop_return(m), ctx_lookup_return(m))

Return_transfer(m) == ctx_pop_dynamic(next_node(ctx_pop_return(m), ctx_lookup_return(m)))

\* Return.execute
Return_execute(m, n, ret_out) ==
    LET self == m.nodes[n]
        m1 == IF self.expression
              THEN [Evaluated(m, "return") EXCEPT !.store._return = ret_out.val]
              ELSE [m EXCEPT !.store._return = NoneVal]
    IN  IF self.expression /\ ~ret_out.ok THEN Raise(Evaluated(m, "return"))
        ELSE IF m.ctx.init_phase /\ Len(m.ctx.return_stack) = 0
             THEN IF m.config.developer THEN Raise(m1) ELSE m1
        ELSE IF m.ctx.return_stack = <<>> THEN Raise(m1)
        ELSE Return_transfer(m1)

\* What Jump.execute does to the context once the target is resolved.
Jump_transfer_pushing(m, n, rv) ==
    [next_node(m, rv) EXCEPT !.ctx.abnormal = TRUE,
                             !.ctx.return_stack = Append(@, NameOf(m.nodes, n)),
                             !.ctx.dynamic_stack = Append(@, EmptyFrame)]

Jump_transfer(m, n, rv) == [next_node(m, rv) EXCEPT !.ctx.abnormal = TRUE]

\* Jump.execute
Jump_execute(m, n, target_out) ==
    LET self == m.nodes[n]
        m1 == IF self.expression THEN Evaluated(m, self.target) ELSE m
        target == IF self.expression THEN target_out.val ELSE self.target
        rv == lookup_or_none(m.nodes, LabelName(target))
    IN  IF self.expression /\ ~target_out.ok THEN Raise(m1)
        ELSE IF rv = None THEN Raise(m1)
        ELSE Jump_transfer(m1, n, rv)

\* The node a While continues at, given its condition's value.
While_branch_exit(self, value) == self.next

While_branch(self, value) == IF value THEN self.block[1] ELSE self.next

\* While.execute
While_execute(m, n, cond_out) ==
    LET self == m.nodes[n]
        m1 == Evaluated(next_node(m, self.next), self.condition)
    IN  IF ~cond_out.ok THEN Raise(m1)
        ELSE IF ~cond_out.val THEN m1
        ELSE IF self.block = <<>> THEN Raise(m1)
        ELSE next_node(m1, While_branch(self, cond_out.val))

\* The loop of If.execute from entry i, without the return in the loop body.
RECURSIVE If_from_no_return(_, _, _, _)
If_from_no_return(m, entries, i, cond_outs) ==
    IF i > Len(entries) THEN m
    ELSE LET m1 == Evaluated(m, entries[i].condition)
         IN  IF ~cond_outs[i].ok THEN Raise(m1)
             ELSE IF cond_outs[i].val
                  THEN IF entries[i].block = <<>> THEN Raise(m1)
                       ELSE If_from_no_return(next_node(m1, entries[i].block[1]),
                                              entries, i + 1, cond_outs)
             ELSE If_from_no_return(m1, entries, i + 1, cond_outs)

\* The loop of If.execute from entry i: evaluate, take the first true entry.
RECURSIVE If_from(_, _, _, _)
If_from(m, entries, i, cond_outs) ==
    IF i > Len(entries) THEN m
    ELSE LET m1 == Evaluated(m, entries[i].condition)
         IN  IF ~cond_outs[i].ok THEN Raise(m1)
             ELSE IF cond_outs[i].val
                  THEN IF entries[i].block = <<>> THEN Raise(m1)
                       ELSE next_node(m1, entries[i].block[1])
             ELSE If_from(m1, entries, i + 1, cond_outs)

\* If.execute
If_execute(m, n, cond_outs) ==
    If_from(next_node(m, m.nodes[n].next), m.nodes[n].entries, 1, cond_outs)

----------------------------------------------------------------------------
\* The display and interaction collaborators (renpy.exports).

\* renpy.exports.say(who, what): the line is shown, or the call raises.
exports_say(m, who, what, ok) ==
    LET m1 == [m EXCEPT !.obs.said =
                  Append(@, [who |-> who, what |-> what,
                             translate_identifier |-> m.ctx.translate_identifier,
                             alternate_translate_identifier |->
                                 m.ctx.alternate_translate_identifier])]
    IN  IF ok THEN m1 ELSE Raise(m1)

\* say_menu_with: a with clause is evaluated (the transition itself is display state).
say_menu_with(m, expression, with_out) ==
    IF expression = NoneStr THEN m
    ELSE IF with_out.ok THEN Evaluated(m, expression) ELSE Raise(Evaluated(m, expression))

\* The guards renpy.exports.menu evaluates, in the order of the choices, up to
\* the first that raises.
RECURSIVE menu_guards(_, _, _, _)
menu_guards(m, choices, k, guard_outs) ==
    IF k > Len(choices) THEN m
    ELSE LET c == choices[k]
             m1 == Evaluated(m, c.condition)
         IN  IF ~guard_outs[c.item].ok THEN Raise(m1)
             ELSE menu_guards(IF guard_outs[c.item].val
                              THEN [m1 EXCEPT !.obs.presented = Append(@, c)]
                              ELSE m1,
                              choices, k + 1, guard_outs)

\* The values the user can pick among the presented choices.
Selectable(presented) == {presented[k].value : k \in DOMAIN presented} \ {None}

\* renpy.exports.menu(choices, set, args, kwargs, item_arguments): the choices
\* whose guard is true are presented; the value of the picked one, or None, is
\* returned.
exports_menu(m, choices, guard_outs, selection, ok) ==
    LET m1 == menu_guards(m, choices, 1, guard_outs)
        picked == IF selection \in Selectable(m1.obs.presented) THEN selection ELSE None
    IN  IF m1.obs.raised THEN m1
        ELSE IF ~ok THEN Raise(m1)
        ELSE [m1 EXCEPT !.obs.chose = TRUE, !.obs.choice = picked]

----------------------------------------------------------------------------
\* Menu.execute

\* An entry of the choices list: (label, condition, value), with the item it came from.
Choice(it, value, i) ==
    [label |-> it.label, condition |-> it.condition, value |-> value, item |-> i]

\* The arguments appended for item i: the evaluated ArgumentInfo, or ((), {}).
HasItemArguments(self, i) == self.item_arguments # <<>> /\ self.item_arguments[i]

Menu_append_arguments_if_given(m, self, i, out) ==
    IF HasItemArguments(self, i)
    THEN IF out.ok
         THEN [Evaluated(m, "item_arguments")
                  EXCEPT !.obs.item_arguments = Append(@, [item |-> i, val |-> out.val])]
         ELSE Raise(Evaluated(m, "item_arguments"))
    ELSE m

Menu_append_arguments(m, self, i, out) ==
    IF HasItemArguments(self, i)
    THEN IF out.ok
         THEN [Evaluated(m, "item_arguments")
                  EXCEPT !.obs.item_arguments = Append(@, [item |-> i, val |-> out.val])]
         ELSE Raise(Evaluated(m, "item_arguments"))
    ELSE [m EXCEPT !.obs.item_arguments = Append(@, [item |-> i, val |-> NoneVal])]

\* An item with a block: it is listed as a choice, and its block becomes the
\* next node.
Menu_item_block_listed(m, it, i) == [m EXCEPT !.obs.choices = Append(@, Choice(it, i, i))]

Menu_item_block(m, it, i) ==
    next_node([m EXCEPT !.obs.choices = Append(@, Choice(it, i, i))], it.block[1])

\* The loop over the items, from item i.
RECURSIVE Menu_items(_, _, _, _)
Menu_items(m, self, i, item_outs) ==
    IF i > Len(self.items) THEN m
    ELSE LET it == self.items[i]
             narrated == ~it.hasblock /\ m.config.narrator_menu /\ it.label # ""
             m1 == IF ~it.hasblock
                   THEN IF narrated
                        THEN [m EXCEPT !.obs.narration = Append(@, it.label)]
                        ELSE [m EXCEPT !.obs.choices = Append(@, Choice(it, None, i))]
                   ELSE Menu_item_block(m, it, i)
             m2 == IF narrated THEN m1 ELSE Menu_append_arguments(m1, self, i, item_outs[i])
         IN  IF it.hasblock /\ it.block = <<>> THEN Raise(m)
             ELSE IF m2.obs.raised THEN m2
             ELSE Menu_items(m2, self, i + 1, item_outs)

\* The transfer that ends Menu.execute.
Menu_transfer_next(m, self, choice) == next_node(m, self.next)

Menu_transfer(m, self, choice) ==
    IF choice # None THEN next_node(m, self.items[choice].block[1])
    ELSE next_node(m, self.next)

Menu_execute(m, n, inp) ==
    LET self == m.nodes[n]
        m1 == next_node(m, self.next)
        m2 == IF self.arguments THEN Evaluated(m1, "arguments") ELSE m1
        m3 == Menu_items(m2, self, 1, inp.item_outs)
        m4 == IF m3.obs.narration # <<>>
              THEN exports_say(m3, NoneStr, m3.obs.narration, inp.say_ok)
              ELSE m3
        m5 == say_menu_with(m4, self.with_, inp.with_out)
        m6 == exports_menu(m5, m5.obs.choices, inp.guard_outs, inp.selection, inp.menu_ok)
    IN  IF self.arguments /\ ~inp.args_out.ok THEN Raise(m2)
        ELSE IF m3.obs.raised THEN m3
        ELSE IF m4.obs.raised THEN m4
        ELSE IF m5.obs.raised THEN m5
        ELSE IF m6.obs.raised THEN m6
        ELSE Menu_transfer(m6, self, m6.obs.choice)

----------------------------------------------------------------------------
\* Say and the translation statements.

\* The finally clause of Say.execute: the attributes of the say are cleared.
Say_finally(m) ==
    [m EXCEPT !.ctx.say_attributes = NoneStr, !.ctx.temporary_attributes = NoneStr]

\* Say.execute: next_node, the speaker is evaluated, the line is said.
Say_execute(m, n, inp) ==
    LET self == m.nodes[n]
        m1 == next_node(m, self.next)
        m2 == IF self.who # NoneStr THEN Evaluated(m1, self.who) ELSE m1
        m3 == IF self.arguments THEN Evaluated(m2, "arguments") ELSE m2
        m4 == say_menu_with(m3, self.with_, inp.with_out)
    IN  IF self.who # NoneStr /\ ~inp.who_ok THEN Say_finally(Raise(m2))
        ELSE IF self.arguments /\ ~inp.args_out.ok THEN Say_finally(Raise(m3))
        ELSE IF m4.obs.raised THEN Say_finally(m4)
        ELSE Say_finally(exports_say(m4, self.who, self.what, inp.say_ok))

\* Translator.lookup_translate(identifier, alternate): the node to run for the
\* active language: the language's translate of the identifier, else of the
\* alternate identifier, else the canonical one; a Translate stands for the first
\* node of its block, a TranslateSay for itself.
lookup_translate(ns, language, identifier, alternate) ==
    LET byid == language_translates(ns, identifier, language)
        byalt == IF alternate # NoneStr
                 THEN language_translates(ns, alternate, language) ELSE None
        tl == IF language # NoneStr /\ byid # None THEN byid
              ELSE IF language # NoneStr /\ byalt # None THEN byalt
              ELSE default_translates(ns, identifier)
    IN  IF tl = None THEN None
        ELSE IF ns[tl].kind = "TranslateSay" THEN tl
        ELSE ns[tl].block[1]

\* Translate.lookup, TranslateSay.lookup
lookup(m, n) ==
    lookup_translate(m.nodes, m.config.language, m.nodes[n].identifier, m.nodes[n].alternate)

Looked(m, n) ==
    [m EXCEPT !.obs.lookups = Append(@, <<m.nodes[n].identifier, m.nodes[n].alternate>>)]

\* renpy.astsupport.hash64(identifier), and the raw key: the two forms under
\* which persistent._seen_translates holds an identifier.
hash64(identifier) == [form |-> "hash64", of |-> identifier]

raw(identifier) == [form |-> "str", of |-> identifier]

\* The key added to the seen set, by config.hash_seen.
seen_key(m, tlid) == IF m.config.hash_seen THEN hash64(tlid) ELSE raw(tlid)

\* The seen bookkeeping, were it to test only the form of the current policy.
mark_seen_current_form(m, tlid) ==
    IF seen_key(m, tlid) \notin m.game.seen_translates
    THEN [m EXCEPT !.game.seen_translates = @ \cup {seen_key(m, tlid)},
                   !.game.seen_translates_count = @ + 1,
                   !.game.new_translates_count = @ + 1]
    ELSE m

\* The seen bookkeeping shared by TranslateSay.execute and EndTranslate.execute.
mark_seen(m, tlid) ==
    IF raw(tlid) \notin m.game.seen_translates /\ hash64(tlid) \notin m.game.seen_translates
    THEN [m EXCEPT !.game.seen_translates = @ \cup {seen_key(m, tlid)},
                   !.game.seen_translates_count = @ + 1,
                   !.game.new_translates_count = @ + 1]
    ELSE m

clear_translate_current(m) == [m EXCEPT !.ctx.translate_identifier = NoneStr]

\* The equivalent of an endtranslate block.
clear_translate(m) ==
    [m EXCEPT !.ctx.translate_identifier = NoneStr,
              !.ctx.alternate_translate_identifier = NoneStr]

set_translate(m, self) ==
    [m EXCEPT !.ctx.translate_identifier = self.identifier,
              !.ctx.alternate_translate_identifier = self.alternate]

\* Where a canonical Translate continues.
Translate_target_own_block(m, n) == m.nodes[n].next

Translate_target(m, n) == lookup(m, n)

\* Translate.execute with the lookup made before the language test.
Translate_execute_eager(m, n) ==
    LET self == m.nodes[n]
        m1 == set_translate(next_node(Looked(m, n), Translate_target(m, n)), self)
    IN  IF self.language # NoneStr THEN Raise(next_node(m1, self.next)) ELSE m1

\* Translate.execute
Translate_execute(m, n) ==
    LET self == m.nodes[n]
    IN  IF self.language # NoneStr THEN Raise(next_node(m, self.next))
        ELSE set_translate(next_node(Looked(m, n), Translate_target(m, n)), self)

\* TranslateSay.execute
TranslateSay_execute(m, n, inp) ==
    LET self == m.nodes[n]
        m1 == set_translate(next_node(m, self.next), self)
        node == lookup(m, n)
        said == Say_execute(m1, n, inp)
    IN  IF self.language = NoneStr /\ node # None /\ node # n
        THEN next_node(Looked(m1, n), node)
        ELSE clear_translate(mark_seen(IF self.language = NoneStr
                                       THEN [said EXCEPT !.obs.lookups = Looked(m1, n).obs.lookups]
                                       ELSE said,
                                       self.identifier))

\* EndTranslate.execute
EndTranslate_execute(m, n) ==
    LET m1 == next_node(m, m.nodes[n].next)
        tlid == m.ctx.translate_identifier
    IN  clear_translate(IF tlid # NoneStr THEN mark_seen(m1, tlid) ELSE m1)

----------------------------------------------------------------------------
\* History kept beside the program's state, to state the claims: the calls made
\* and not yet returned from (the statement that follows each in program order,
\* the value of x when it was made and when it was first shadowed since), and
\* the entry the last Return matched, with the value of x just before it; the
\* persistent seen set the session started with, and the translation identifiers
\* whose seen bookkeeping has run.

NoCall == [site |-> None, x |-> NoneVal, saved |-> NoneVal, before |-> NoneVal]

NoHist == [unmatched |-> <<>>, returned |-> NoCall, ran |-> {}, seen0 |-> {}]

Track(m0, m, n) ==
    LET self == m.nodes[n]
        um == m0.hist.unmatched
        h == [m0.hist EXCEPT !.returned = NoCall]
    IN  [m EXCEPT !.hist =
            CASE self.kind = "Call" /\ m.obs.nn # <<>> ->
                   [h EXCEPT !.unmatched =
                       Append(um, [site |-> Follower(m.nodes, m.game.toplevel, n),
                                   x |-> m0.store.x, saved |-> NoneVal,
                                   before |-> NoneVal])]
              [] self.kind = "Return" /\ m.obs.nn # <<>> /\ um # <<>> ->
                   [h EXCEPT !.unmatched = SubSeq(um, 1, Len(um) - 1),
                             !.returned = [um[Len(um)] EXCEPT !.before = m0.store.x]]
              [] self.kind = "Label" /\ ~m.obs.raised /\ self.parameters.present
                 /\ um # <<>> /\ um[Len(um)].saved = NoneVal ->
                   [h EXCEPT !.unmatched[Len(um)].saved = m0.store.x]
              [] self.kind = "TranslateSay"
                 /\ (self.language # NoneStr \/ lookup(m0, n) \in {None, n}) ->
                   [h EXCEPT !.ran = @ \cup {self.identifier}]
              [] self.kind = "EndTranslate" /\ m0.ctx.translate_identifier # NoneStr ->
                   [h EXCEPT !.ran = @ \cup {m0.ctx.translate_identifier}]
              [] OTHER -> h]

----------------------------------------------------------------------------
\* Initial states: a loaded script, before its init phase.

InitCtx ==
    [next_node |-> None, current |-> None, return_stack |-> <<>>,
     dynamic_stack |-> <<EmptyFrame>>, abnormal |-> FALSE, last_abnormal |-> FALSE,
     translate_identifier |-> NoneStr, alternate_translate_identifier |-> NoneStr,
     say_attributes |-> NoneStr, temporary_attributes |-> NoneStr,
     init_phase |-> TRUE]

InitStore == [x |-> 0, _args |-> ArgsNone, _kwargs |-> ArgsNone, _return |-> NoneVal]

InitGame(ns, toplevel) ==
    [toplevel |-> toplevel, initcode |-> initcode(ns), seen_translates |-> {},
     seen_translates_count |-> 0, new_translates_count |-> 0]

InitConfig == [language |-> NoneStr, hash_seen |-> FALSE, narrator_menu |-> FALSE,
               developer |-> FALSE]

\* The labels a label expression may evaluate to: those of the script, and one
\* that no script defines.
Labels(ns) == {ns[i].name.label : i \in {j \in DOMAIN ns : ns[j].kind = "Label"}}

LabelOutcomes(ns) == {Ok(l) : l \in Labels(ns) \cup {"nolabel"}} \cup {Fails("")}

\* script.rpy of the control-flow specification.
ControlToplevel == <<1, 12, 16, 18, 20, 22>>

ControlScript ==
    <<Label("start", <<2, 3, 4, 5, 8, 11>>, NoParams),
        Python(0),
        Call("leaf", FALSE, TRUE),
        Pass,
        While("c_loop", <<6, 7>>),
          Call("e_target", TRUE, FALSE),
          Pass,
        If(<<Entry("c_a", <<9>>), Entry("c_b", <<10>>)>>),
          Jump("leaf", FALSE),
          Python(1),
        Jump("e_target", TRUE),
      Label("sub", <<13, 14>>, NoParams),
        Python(1),
        If(<<Entry("c_ret", <<15>>)>>),
          Return(FALSE),
      InitNode(<<17>>, 0),
        Python(0),
      Label("leaf", <<19>>, Params(0)),
        Return(TRUE),
      InitNode(<<21>>, 1),
        Return(TRUE),
      Label("tl_block", <<23, 25>>, NoParams),
        TranslateBlock("fr", <<24>>),
          Python(1),
        Return(FALSE)>>

Init ==
    /\ nodes = load_script(ControlScript, ControlToplevel)
    /\ ctx = InitCtx
    /\ store = InitStore
    /\ game = InitGame(nodes, ControlToplevel)
    /\ \E d \in BOOLEAN : config = [InitConfig EXCEPT !.developer = d]
    /\ obs = NoObs
    /\ hist = NoHist

----------------------------------------------------------------------------
\* Actions: the init phase, the start of the game, one action per execute().

\* The node the context is about to execute is of kind k.
At(k) == ctx.next_node # None /\ nodes[ctx.next_node].kind = k

\* The fetch-execute step: execute is the statement's execute() applied to the
\* machine that run_fetch prepared.
Fetched(op) == run_fetch(Machine, ctx.next_node, op)

Step(m) == Becomes(Track(Machine, m, ctx.next_node))

\* Init.execute_init: the init phase runs the block of the next Init node.
ExecuteInit ==
    /\ ctx.init_phase /\ ctx.next_node = None /\ game.initcode # <<>>
    /\ ctx' = [ctx EXCEPT !.next_node = nodes[Head(game.initcode)].block[1]]
    /\ game' = [game EXCEPT !.initcode = Tail(@)]
    /\ obs' = [NoObs EXCEPT !.op = "execute_init"]
    /\ UNCHANGED <<nodes, store, config, hist>>

\* The init phase is over: the game starts at the start label.
StartGame ==
    /\ ctx.init_phase /\ ctx.next_node = None /\ game.initcode = <<>>
    /\ ctx' = [ctx EXCEPT !.init_phase = FALSE,
                          !.next_node = lookup_or_none(nodes, LabelName("start"))]
    /\ obs' = [NoObs EXCEPT !.op = "start"]
    /\ UNCHANGED <<nodes, store, game, config, hist>>

ExecutePass == At("Pass") /\ Step(Pass_execute(Fetched("Pass"), ctx.next_node))

ExecuteTranslateBlock ==
    At("TranslateBlock") /\ Step(Init_execute(Fetched("TranslateBlock"), ctx.next_node))

ExecuteInitNode == At("Init") /\ Step(Init_execute(Fetched("Init"), ctx.next_node))

ExecutePython ==
    /\ At("Python")
    /\ \E ran \in BOOLEAN : Step(Python_execute(Fetched("Python"), ctx.next_node, ran))

ExecuteLabel == At("Label") /\ Step(Label_execute(Fetched("Label"), ctx.next_node))

ExecuteCall ==
    /\ At("Call")
    /\ Len(ctx.return_stack) < MaxStack
    /\ \E l \in Unused(LabelOutcomes(nodes), nodes[ctx.next_node].expression),
          a \in Unused(ValueOutcomes, nodes[ctx.next_node].arguments) :
          Step([Call_execute(Fetched("Call"), ctx.next_node, l, a)
                   EXCEPT !.obs.label_out = l])

ExecuteReturn ==
    /\ At("Return")
    /\ \E r \in Unused(ValueOutcomes, nodes[ctx.next_node].expression) :
          Step(Return_execute(Fetched("Return"), ctx.next_node, r))

ExecuteJump ==
    /\ At("Jump")
    /\ \E t \in Unused(LabelOutcomes(nodes), nodes[ctx.next_node].expression) :
          Step([Jump_execute(Fetched("Jump"), ctx.next_node, t)
                   EXCEPT !.obs.label_out = t])

ExecuteWhile ==
    /\ At("While")
    /\ \E c \in CondOutcomes :
          Step([While_execute(Fetched("While"), ctx.next_node, c)
                   EXCEPT !.obs.cond_outs = <<c>>])

ExecuteIf ==
    /\ At("If")
    /\ \E cs \in [DOMAIN nodes[ctx.next_node].entries -> CondOutcomes] :
          Step([If_execute(Fetched("If"), ctx.next_node, cs)
                   EXCEPT !.obs.cond_outs = cs])

Next ==
    \/ ExecuteInit
    \/ StartGame
    \/ ExecutePass
    \/ ExecuteInitNode
    \/ ExecuteTranslateBlock
    \/ ExecutePython
    \/ ExecuteLabel
    \/ ExecuteCall
    \/ ExecuteReturn
    \/ ExecuteJump
    \/ ExecuteWhile
    \/ ExecuteIf

Spec == Init /\ [][Next]_vars

----------------------------------------------------------------------------
\* The menu specification: a script of two menus, run in a loop.

MenuToplevel == <<1>>

MenuScript ==
    <<Label("start", <<2, 6, 8>>, NoParams),
        Menu(<<Caption("narr", "True"),
               Item("A", "g_a", <<3, 4>>),
               Item("B", "g_b", <<5>>)>>, "trans", <<FALSE, TRUE, FALSE>>),
          Pass,
          Jump("start", FALSE),
          Pass,
        Menu(<<Caption("", "g_e"),
               Item("C", "g_c", <<7>>),
               Caption("tail", "g_t")>>, NoneStr, <<TRUE, FALSE, FALSE>>),
          Pass,
        Jump("start", FALSE)>>

InitMenu ==
    /\ nodes = load_script(MenuScript, MenuToplevel)
    /\ ctx = InitCtx
    /\ store = InitStore
    /\ game = InitGame(nodes, MenuToplevel)
    /\ \E nm \in BOOLEAN : config = [InitConfig EXCEPT !.narrator_menu = nm]
    /\ obs = NoObs
    /\ hist = NoHist

\* The outcomes of evaluating the item arguments: only the items that have any
\* can fail.
ItemOutcomes(self) ==
    {f \in [DOMAIN self.items -> {Ok(0), Fails(0)}] :
        \A i \in DOMAIN self.items : ~HasItemArguments(self, i) => f[i].ok}

MenuInputs(self) ==
    [args_out : Unused({Ok(0), Fails(0)}, self.arguments),
     item_outs : ItemOutcomes(self),
     say_ok : BOOLEAN,
     with_out : Unused({Ok(0), Fails(0)}, self.with_ # NoneStr),
     guard_outs : [DOMAIN self.items -> CondOutcomes],
     selection : {None} \cup {i \in DOMAIN self.items : self.items[i].hasblock},
     menu_ok : BOOLEAN]

ExecuteMenu ==
    /\ At("Menu")
    /\ \E inp \in MenuInputs(nodes[ctx.next_node]) :
          Step([Menu_execute(Fetched("Menu"), ctx.next_node, inp)
                   EXCEPT !.obs.cond_outs = inp.guard_outs])

NextMenu ==
    \/ StartGame
    \/ ExecuteLabel
    \/ ExecutePass
    \/ ExecuteJump
    \/ ExecuteMenu

SpecMenu == InitMenu /\ [][NextMenu]_vars

----------------------------------------------------------------------------
\* The translation specification: a script with its French translation file.

TranslateToplevel == <<1, 10, 11, 13, 14, 15>>

TranslateScript ==
    <<Label("start", <<2, 6, 7, 8, 9>>, NoParams),
        Translate("id1", NoneStr, <<3, 4>>, NoneStr),
          Say("e", "hello"),
          If(<<Entry("c_tl", <<5>>)>>),
            Jump("tl_fr", FALSE),
        EndTranslate,
        TranslateSay("e", "bye", "id2", NoneStr, "id2_old"),
        TranslateSay(NoneStr, "narration", "id3", NoneStr, NoneStr),
        Jump("start", FALSE),
      Label("tl_fr", <<>>, NoParams),
      Translate("id1", "fr", <<12>>, NoneStr),
        Say("e", "bonjour"),
      EndTranslate,
      TranslateSay("e", "au revoir", "id2_old", "fr", NoneStr),
      TranslateSay(NoneStr, "narration (fr)", "id3", "fr", NoneStr)>>

\* The languages a session may have active: none, one the script is translated
\* to, one it is not.
Languages == {NoneStr, "fr", "de"}

\* The persistent seen sets a session may start with.
SeenBefore == {{}, {raw("id1")}, {hash64("id2_old")}, {raw("id3"), hash64("id1")}}

InitTranslate ==
    /\ nodes = load_script(TranslateScript, TranslateToplevel)
    /\ ctx = InitCtx
    /\ store = InitStore
    /\ \E s0 \in SeenBefore :
          /\ game = [InitGame(nodes, TranslateToplevel)
                        EXCEPT !.seen_translates = s0,
                               !.seen_translates_count = Cardinality(s0)]
          /\ hist = [NoHist EXCEPT !.seen0 = s0]
    /\ \E l \in Languages, h \in BOOLEAN :
          config = [InitConfig EXCEPT !.language = l, !.hash_seen = h]
    /\ obs = NoObs

SayInputs(self) ==
    [who_ok : IF self.who # NoneStr THEN BOOLEAN ELSE {TRUE}, say_ok : BOOLEAN,
     args_out : Unused({Ok(0), Fails(0)}, self.arguments),
     with_out : Unused({Ok(0), Fails(0)}, self.with_ # NoneStr)]

ExecuteSay ==
    /\ At("Say")
    /\ \E inp \in SayInputs(nodes[ctx.next_node]) :
          Step(Say_execute(Fetched("Say"), ctx.next_node, inp))

ExecuteTranslate ==
    At("Translate") /\ Step(Translate_execute(Fetched("Translate"), ctx.next_node))

ExecuteTranslateSay ==
    /\ At("TranslateSay")
    /\ \E inp \in SayInputs(nodes[ctx.next_node]) :
          Step(TranslateSay_execute(Fetched("TranslateSay"), ctx.next_node, inp))

ExecuteEndTranslate ==
    At("EndTranslate") /\ Step(EndTranslate_execute(Fetched("EndTranslate"), ctx.next_node))

\* config.hash_seen is changed between two statements.
SetHashSeen ==
    /\ ~ctx.init_phase
    /\ config' = [config EXCEPT !.hash_seen = ~@]
    /\ UNCHANGED <<nodes, ctx, store, game, obs, hist>>

NextTranslate ==
    \/ StartGame
    \/ ExecuteLabel
    \/ ExecuteIf
    \/ ExecuteJump
    \/ ExecuteSay
    \/ ExecuteTranslate
    \/ ExecuteTranslateSay
    \/ ExecuteEndTranslate
    \/ SetHashSeen

SpecTranslate == InitTranslate /\ [][NextTranslate]_vars

----------------------------------------------------------------------------
\* Prediction of the control transfers. The source of an expression is a
\* sequence of tokens here, so that its characters can be looked at.

\* probably_side_effect_free(expr): the source holds no "(".
probably_side_effect_free(expr) == "(" \notin Range(expr)

\* predict() returns the list result.
Predicted(m, result) == [m EXCEPT !.obs.predicted = result]

\* The evaluator raised during the call (whether or not the call caught it).
Failed(m) == [m EXCEPT !.obs.failed = TRUE]

\* py_eval(expr) in a lookahead: evaluated, and failing when the outcome is not ok.
Looked_up(m, expr, ok) == IF ok THEN Evaluated(m, expr) ELSE Failed(Evaluated(m, expr))

\* Script.lookup: the node of the label; an unknown label raises.
script_lookup(m, label) ==
    IF has_label(m.nodes, label)
    THEN Predicted(m, <<lookup_or_none(m.nodes, LabelName(label))>>)
    ELSE Raise(m)

\* Context.predict_call: notes the return site for the prediction and looks
\* the label up.
ctx_predict_call(m, label, return_site) == script_lookup(m, label)

\* The tests predict() makes on a target given by expression before it
\* resolves it; TRUE when the prediction is abandoned.
predict_abandons(m, self, label_out) ==
    self.expression /\ (\/ ~probably_side_effect_free(self.target)
                        \/ ~label_out.ok
                        \/ ~has_label(m.nodes, label_out.val))

\* Call.predict
Call_predict(m, n, label_out) ==
    LET self == m.nodes[n]
        m1 == IF self.expression /\ probably_side_effect_free(self.target)
              THEN Looked_up(m, self.target, label_out.ok) ELSE m
        label == IF self.expression THEN label_out.val ELSE self.target
    IN  IF predict_abandons(m, self, label_out) THEN Predicted(m1, <<>>)
        ELSE IF self.next = None THEN Raise(m1)
        ELSE ctx_predict_call(m1, label, Call_return_site(m.nodes, n))

\* Jump.predict
Jump_predict(m, n, label_out) ==
    LET self == m.nodes[n]
        m1 == IF self.expression /\ probably_side_effect_free(self.target)
              THEN Looked_up(m, self.target, label_out.ok) ELSE m
        label == IF self.expression THEN label_out.val ELSE self.target
    IN  IF predict_abandons(m, self, label_out) THEN Predicted(m1, <<>>)
        ELSE script_lookup(m1, label)

\* script.rpy of the prediction specification: calls and jumps by expression
\* (with and without a call in the expression) and by name (to labels the
\* script defines and to one it does not).
PredictToplevel == <<1, 6, 8, 10, 13, 15>>

PredictScript ==
    <<Label("start", <<2, 3, 4, 5>>, NoParams),
        Call(<<"e_target">>, TRUE, FALSE),
        Pass,
        Call(<<"pick", "(", ")">>, TRUE, FALSE),
        Jump(<<"e_target">>, TRUE),
      Label("a", <<7>>, NoParams),
        Call("nolabel", FALSE, FALSE),
      Label("b", <<9>>, NoParams),
        Jump("nolabel", FALSE),
      Label("c", <<11, 12>>, NoParams),
        Call("d", FALSE, FALSE),
        Jump(<<"pick", "(", ")">>, TRUE),
      Label("d", <<14>>, NoParams),
        Return(FALSE),
      Label("e", <<16>>, NoParams),
        Jump("a", FALSE)>>

InitPredict ==
    /\ nodes = load_script(PredictScript, PredictToplevel)
    /\ ctx = InitCtx
    /\ store = InitStore
    /\ game = InitGame(nodes, PredictToplevel)
    /\ config = InitConfig
    /\ obs = NoObs
    /\ hist = NoHist

\* The machine at the start of a predict() call.
Predicting(op) == [Machine EXCEPT !.obs = [NoObs EXCEPT !.op = op]]

\* Call.predict on the statement about to run; label_out is what the evaluator
\* gives for the expression if it is asked.
PredictCall ==
    /\ At("Call")
    /\ \E l \in Unused(LabelOutcomes(nodes), nodes[ctx.next_node].expression) :
          Becomes([Call_predict(Predicting("Call.predict"), ctx.next_node, l)
                      EXCEPT !.obs.label_out = l])

\* Jump.predict on the statement about to run.
PredictJump ==
    /\ At("Jump")
    /\ \E l \in Unused(LabelOutcomes(nodes), nodes[ctx.next_node].expression) :
          Becomes([Jump_predict(Predicting("Jump.predict"), ctx.next_node, l)
                      EXCEPT !.obs.label_out = l])

NextPredict ==
    \/ StartGame
    \/ ExecutePass
    \/ ExecuteLabel
    \/ ExecuteCall
    \/ ExecuteReturn
    \/ ExecuteJump
    \/ PredictCall
    \/ PredictJump

SpecPredict == InitPredict /\ [][NextPredict]_vars

----------------------------------------------------------------------------
\* Lookahead: predict() and scry() of the statements, and Scry.next.

\* Scry(): the fields as the class declares them.
Scry == [_next |-> None, interacts |-> FALSE, say |-> FALSE,
         menu_with_caption |-> FALSE, who |-> NoneStr]

\* scry() returns rv.
Scried(m, rv) == [m EXCEPT !.obs.scry = <<rv>>]

\* eval_who(who): None for the narrator; otherwise the speaker is evaluated, and
\* a failure of the evaluator is raised again as "Sayer is not defined".
eval_who(m, who, who_ok) ==
    IF who = NoneStr THEN m
    ELSE IF who_ok THEN Evaluated(m, who)
    ELSE Raise(Looked_up(m, who, FALSE))

\* try: say_menu_with(...) except Exception: pass
say_menu_with_guarded(m, expression, with_out) ==
    IF expression = NoneStr THEN m ELSE Looked_up(m, expression, with_out.ok)

\* say_menu_with(...) outside any try.
say_menu_with_unguarded(m, expression, with_out) ==
    IF expression = NoneStr THEN m
    ELSE IF with_out.ok THEN Evaluated(m, expression)
    ELSE Raise(Looked_up(m, expression, FALSE))

\* Node.predict
Node_predict(m, n) ==
    Predicted(m, IF m.nodes[n].next # None THEN <<m.nodes[n].next>> ELSE <<>>)

\* Node.scry
Node_scry(m, n) == Scried(m, [Scry EXCEPT !._next = m.nodes[n].next])

\* The finally clause of Say.predict: the attributes go back to what they were.
Say_predict_finally_cleared(m, old) == Say_finally(m)

Say_predict_finally(m, old) ==
    [m EXCEPT !.ctx.say_attributes = old.say_attributes,
              !.ctx.temporary_attributes = old.temporary_attributes]

\* Say.predict
Say_predict(m, n, inp) ==
    LET self == m.nodes[n]
        old == m.ctx
        m1 == [m EXCEPT !.ctx.say_attributes = self.attributes,
                        !.ctx.temporary_attributes = self.temporary_attributes]
        m2 == eval_who(m1, self.who, inp.who_ok)
        m3 == say_menu_with_guarded(m2, self.with_, inp.with_out)
    IN  IF m2.obs.raised THEN Say_predict_finally(m2, old)
        ELSE Predicted(Say_predict_finally(m3, old), <<self.next>>)

\* Say.scry
Say_scry(m, n, inp) ==
    LET self == m.nodes[n]
        m1 == eval_who(m, self.who, inp.who_ok)
        m2 == IF self.arguments THEN Looked_up(m1, "arguments", inp.args_out.ok) ELSE m1
    IN  IF m1.obs.raised THEN m1
        ELSE Scried(m2, [Scry EXCEPT !._next = self.next, !.who = self.who, !.say = TRUE])

\* Python.scry
Python_scry(m, n) == Scried(m, [Scry EXCEPT !._next = m.nodes[n].next, !.interacts = TRUE])

\* Call.scry, Return.scry, While.scry, If.scry: what follows is not known.
Transfer_scry(m, n) == Scried(m, Scry)

\* Return.predict: Context.predict_return gives the return site on top of the
\* stack of the prediction, None when it is empty.
Return_predict(m, n) ==
    Predicted(m, <<IF m.ctx.return_stack = <<>> THEN None ELSE ctx_lookup_return(m)>>)

\* The first statements of the items that have a block.
BlockStarts(items) ==
    LET withblock == SelectSeq(items, LAMBDA it : it.block # <<>>)
    IN  [i \in 1 .. Len(withblock) |-> withblock[i].block[1]]

\* Menu.predict
Menu_predict(m, n, inp) ==
    LET self == m.nodes[n]
        m1 == say_menu_with_unguarded(m, self.with_, inp.with_out)
    IN  IF m1.obs.raised THEN m1
        ELSE Predicted(m1, BlockStarts(self.items))

\* Menu.scry
Menu_scry(m, n) ==
    LET self == m.nodes[n]
        has_caption == \E i \in DOMAIN self.items : ~self.items[i].hasblock
    IN  Scried(m, [Scry EXCEPT !.interacts = TRUE, !.menu_with_caption = has_caption])

\* Jump.scry
Jump_scry(m, n) ==
    LET self == m.nodes[n]
    IN  IF self.expression THEN Scried(m, Scry)
        ELSE IF has_label(m.nodes, self.target)
        THEN Scried(m, [Scry EXCEPT !._next = lookup_or_none(m.nodes, LabelName(self.target))])
        ELSE Raise(m)

\* node.predict(), by the class of the node.
predict(m, n, inp) ==
    LET k == m.nodes[n].kind
    IN  CASE k = "Say" -> Say_predict(m, n, inp)
          [] k = "Menu" -> Menu_predict(m, n, inp)
          [] k = "Call" -> Call_predict(m, n, inp.label_out)
          [] k = "Jump" -> Jump_predict(m, n, inp.label_out)
          [] k = "Return" -> Return_predict(m, n)
          [] OTHER -> Node_predict(m, n)

\* node.scry(), by the class of the node.
scry(m, n, inp) ==
    LET k == m.nodes[n].kind
    IN  CASE k = "Say" -> Say_scry(m, n, inp)
          [] k = "Menu" -> Menu_scry(m, n)
          [] k = "Jump" -> Jump_scry(m, n)
          [] k \in {"Call", "Return", "While", "If"} -> Transfer_scry(m, n)
          [] k = "Python" -> Python_scry(m, n)
          [] OTHER -> Node_scry(m, n)

\* Scry.next without its try: what the scry() of the next node does.
Scry_next_uncaught(m, rv, inp) ==
    IF rv._next = None THEN [m EXCEPT !.obs.scry = <<>>]
    ELSE scry(m, rv._next, inp)

\* Scry.next: None (the empty result) when no next node is recorded or its
\* scry() raises, else the Scry of the next node.
Scry_next(m, rv, inp) ==
    LET inner == scry(m, rv._next, inp)
    IN  IF rv._next = None THEN [m EXCEPT !.obs.scry = <<>>]
        ELSE IF inner.obs.raised THEN [inner EXCEPT !.obs.raised = FALSE, !.obs.scry = <<>>]
        ELSE inner

\* script.rpy of the lookahead specification: dialogue with speakers, attributes,
\* a with clause and arguments, a menu with a with clause, calls and jumps.
LookToplevel == <<1, 10>>

LookScript ==
    <<Label("start", <<2, 3, 4, 8, 9>>, NoParams),
        [Say("e", "hello") EXCEPT !.attributes = "happy", !.with_ = "dissolve"],
        [Say("l", "hi") EXCEPT !.attributes = "sad", !.arguments = TRUE],
        Menu(<<Caption("cap", "True"),
               Item("A", "g_a", <<5>>),
               Item("B", "g_b", <<6, 7>>)>>, "trans", <<>>),
          Pass,
          Call("sub", FALSE, FALSE),
          Jump("nolabel", FALSE),
        Call(<<"e_target">>, TRUE, FALSE),
        Jump("start", FALSE),
      Label("sub", <<11>>, NoParams),
        Return(FALSE)>>

InitLook ==
    /\ nodes = load_script(LookScript, LookToplevel)
    /\ ctx = InitCtx
    /\ store = InitStore
    /\ game = InitGame(nodes, LookToplevel)
    /\ config = InitConfig
    /\ obs = NoObs
    /\ hist = NoHist

\* What the evaluator gives for each expression the lookahead of a statement
\* may evaluate.
LookInputs(self) ==
    [who_ok : IF self.who # NoneStr THEN BOOLEAN ELSE {TRUE},
     with_out : Unused({Ok(0), Fails(0)}, self.with_ # NoneStr),
     args_out : Unused({Ok(0), Fails(0)}, self.arguments),
     label_out : Unused(LabelOutcomes(nodes), self.expression)]

\* The inputs of a lookahead that evaluates nothing.
NoInputs == CHOOSE inp \in LookInputs(Pass) : TRUE

\* While a say is being shown the live context holds its attributes
\* (Say.execute sets them before renpy.exports.say and clears them after it);
\* lookahead runs during that interaction.
SetSayAttributes ==
    /\ ctx.current # None
    /\ nodes[ctx.current].kind = "Say"
    /\ nodes[ctx.current].attributes # NoneStr
    /\ ctx' = [ctx EXCEPT !.say_attributes =
                              IF @ = NoneStr THEN nodes[ctx.current].attributes ELSE NoneStr]
    /\ obs' = [NoObs EXCEPT !.op = "interact"]
    /\ UNCHANGED <<nodes, store, game, config, hist>>

\* predict() of the statement about to run.
PredictNode ==
    /\ ctx.next_node # None
    /\ \E inp \in LookInputs(nodes[ctx.next_node]) :
          Becomes([predict(Predicting("predict"), ctx.next_node, inp)
                      EXCEPT !.obs.inp = <<inp>>])

\* scry() of the statement about to run.
ScryNode ==
    /\ ctx.next_node # None
    /\ \E inp \in LookInputs(nodes[ctx.next_node]) :
          Becomes([scry(Predicting("scry"), ctx.next_node, inp)
                      EXCEPT !.obs.inp = <<inp>>])

\* next() of the Scry the last scry() or next() returned.
ScryNext ==
    /\ obs.op \in {"scry", "Scry.next"}
    /\ obs.scry # <<>>
    /\ LET rv == obs.scry[1]
       IN  \E inp \in IF rv._next = None THEN {NoInputs} ELSE LookInputs(nodes[rv._next]) :
              Becomes([Scry_next(Predicting("Scry.next"), rv, inp)
                          EXCEPT !.obs.inp = <<inp>>])

NextLook ==
    \/ StartGame
    \/ ExecuteLabel
    \/ ExecutePass
    \/ ExecuteSay
    \/ ExecuteMenu
    \/ ExecuteCall
    \/ ExecuteReturn
    \/ ExecuteJump
    \/ SetSayAttributes
    \/ PredictNode
    \/ ScryNode
    \/ ScryNext

SpecLook == InitLook /\ [][NextLook]_vars

----------------------------------------------------------------------------
\* The default statements. In this specification the store is the dictionary of
\* a normal store with its change tracking: d the variables (NoneVal: absent),
\* defaults_set the value of d["_defaults_set"] once it exists, ever_been_changed
\* the names ever assigned, store_dicts the names of the stores that exist, and
\* special the variables of the special namespace.

DefaultVars == {"x", "y"}

\* renpy.config.special_namespaces
special_namespaces == {"persistent"}

\* ns.set_default(name, value) of a special namespace: the value is set if the
\* name has none.
ns_set_default(m, name, value) ==
    IF m.store.special[name] = NoneVal THEN [m EXCEPT !.store.special[name] = value] ELSE m

\* The variable was defaulted before: an error at start in developer mode,
\* otherwise nothing.
Default_again_strict(m, self, start) == IF m.config.developer THEN Raise(m) ELSE m

Default_again(m, self, start) == IF start /\ m.config.developer THEN Raise(m) ELSE m

\* The end of execute_default: the variable is recorded as changed and as defaulted.
Default_record_defaulted_only(m, varname) ==
    [m EXCEPT !.store.defaults_set = @ \cup {varname}]

Default_record(m, varname) ==
    [m EXCEPT !.store.ever_been_changed = @ \cup {varname},
              !.store.defaults_set = @ \cup {varname}]

\* Default.execute_default(start)
Default_execute_default(m, n, start, value_out) ==
    LET self == m.nodes[n]
        evaluated == Evaluated(m, self.varname)
        m1 == IF ~m.store.has_defaults_set
              THEN [m EXCEPT !.store.has_defaults_set = TRUE,
                             !.store.defaults_set = {},
                             !.store.ever_been_changed = @ \cup {"_defaults_set"}]
              ELSE m
        assigns == start \/ self.varname \notin m1.store.ever_been_changed
        m2 == IF assigns
              THEN [Evaluated(m1, self.varname) EXCEPT !.store.d[self.varname] = value_out.val]
              ELSE m1
    IN  IF self.store \in special_namespaces
        THEN IF value_out.ok THEN ns_set_default(evaluated, self.varname, value_out.val)
             ELSE Raise(evaluated)
        ELSE IF self.varname \in m1.store.defaults_set THEN Default_again(m1, self, start)
        ELSE IF /\ start /\ m.config.developer
                /\ <<self.store, self.varname>> \in m1.store.store_dicts
             THEN Raise(m1)
        ELSE IF assigns /\ ~value_out.ok THEN Raise(Evaluated(m1, self.varname))
        ELSE Default_record(m2, self.varname)

\* The default statements of the script: two for x, one for y, one in a special
\* namespace.
DefaultScript ==
    <<Default("store", "x", 0),
      Default("store", "y", 1),
      Default("store", "x", 1),
      Default("persistent", "x", 1)>>

\* Nothing has been assigned or defaulted yet; a store named store.x may exist.
InitDefault ==
    /\ nodes = DefaultScript
    /\ ctx = InitCtx
    /\ \E named \in BOOLEAN :
          store = [d |-> [v \in DefaultVars |-> NoneVal],
                   has_defaults_set |-> FALSE, defaults_set |-> {},
                   ever_been_changed |-> {},
                   store_dicts |-> {<<"store">>} \cup
                                   (IF named THEN {<<"store", "x">>} ELSE {}),
                   special |-> [v \in DefaultVars |-> NoneVal]]
    /\ game = InitGame(nodes, <<>>)
    /\ \E dev \in BOOLEAN : config = [InitConfig EXCEPT !.developer = dev]
    /\ obs = NoObs
    /\ hist = NoHist

\* execute_default(start) of one of the default statements (at the start of the
\* game, or after a load).
ExecuteDefault ==
    \E n \in DOMAIN nodes, start \in BOOLEAN, value_out \in ValueOutcomes :
        Becomes([Default_execute_default(Predicting("execute_default"), n, start, value_out)
                    EXCEPT !.obs.inp = <<[n |-> n, start |-> start, value_out |-> value_out]>>])

\* The game assigns a variable of the store; the store records the change.
AssignVariable ==
    \E v \in DefaultVars, val \in Values :
        /\ store' = [store EXCEPT !.d[v] = val, !.ever_been_changed = @ \cup {v}]
        /\ obs' = [NoObs EXCEPT !.op = "assign"]
        /\ UNCHANGED <<nodes, ctx, game, config, hist>>

NextDefault == ExecuteDefault \/ AssignVariable

SpecDefault == InitDefault /\ [][NextDefault]_vars

\* ---------------------------------------------------------------------------
\* Node.name: the property and its setter.
\* ---------------------------------------------------------------------------

\* The values a name can be assigned: a string, a tuple, or None.
NameStr(s) == [form |-> "str", str |-> s, tup |-> <<>>]
NameTuple(t) == [form |-> "tuple", str |-> "", tup |-> t]
NameNone == [form |-> "None", str |-> "", tup |-> <<>>]

MaxVersion == 1
MaxSerial == 1
NameFiles == {"script.rpy", "other.rpy"}

NameValues ==
    {NameNone, NameStr("start"), NameStr("_call_start_1")}
    \cup {NameTuple(<<f, v, s>>) : f \in NameFiles, v \in 0 .. MaxVersion, s \in 0 .. MaxSerial}
    \cup {NameTuple(<<"script.rpy", 1, 1, "extra">>)}

\* Python truth of a name value: None, '' and () are false.
name_truthy(value) ==
    \/ value.form = "str" /\ value.str # ""
    \/ value.form = "tuple" /\ value.tup # <<>>

\* Node.name (getter)
name_get(node) ==
    IF name_truthy(node._name) THEN node._name
    ELSE IF node.name_version # 0
         THEN NameTuple(<<node.filename, node.name_version, node.name_serial>>)
         ELSE NameNone

\* case (self.filename, int(version), int(serial))
name_is_own_triple(node, value) ==
    /\ value.form = "tuple"
    /\ Len(value.tup) = 3
    /\ value.tup[1] = node.filename

\* Node.name (setter)
name_set(node, value) ==
    IF name_is_own_triple(node, value)
    THEN [node EXCEPT !._name = NameNone,
                      !.name_version = value.tup[2],
                      !.name_serial = value.tup[3]]
    ELSE [node EXCEPT !._name = value]

\* Node.__init__: self.filename = loc[0]; self.name = None
Node_init(filename) ==
    name_set([filename |-> filename, _name |-> NameNone,
              name_version |-> 0, name_serial |-> 0], NameNone)

InitName ==
    /\ nodes = <<Node_init("script.rpy")>>
    /\ ctx = InitCtx
    /\ store = InitStore
    /\ game = InitGame(<<>>, <<>>)
    /\ config = InitConfig
    /\ obs = [op |-> "init", value |-> NameNone, before |-> NameNone, name |-> NameNone]
    /\ hist = NoHist

\* node.name = value, and then node.name is read.
AssignName ==
    \E value \in NameValues :
        /\ nodes' = [nodes EXCEPT ![1] = name_set(@, value)]
        /\ obs' = [op |-> "name", value |-> value, before |-> name_get(nodes[1]),
                   name |-> name_get(nodes'[1])]
        /\ UNCHANGED <<ctx, store, game, config, hist>>

NextName == AssignName

SpecName == InitName /\ [][NextName]_vars

----------------------------------------------------------------------------
\* PyCode: construction, dedent, __getstate__ / __setstate__.

\* A source text is a sequence of lines, separated by newlines; a line is a
\* number of leading spaces and the code after them ("" for a line of spaces
\* only).
Line(indent, code) == [indent |-> indent, code |-> code]

MaxIndent == 2
MaxLines == 2

Lines == {Line(i, c) : i \in 0 .. MaxIndent, c \in {"x = 1", ""}}

Sources == UNION {[1 .. k -> Lines] : k \in 1 .. MaxLines}

Modes == {"eval", "exec", "hide"}

Locs == {[filename |-> "script.rpy", linenumber |-> 1],
         [filename |-> "other.rpy", linenumber |-> 7]}

\* renpy.astsupport.hash32(source); None; a hashcode attribute never assigned,
\* which reads as no attribute or as the default of its slot.
hash32(source) == [form |-> "hash32", of |-> source]

HashNone == [form |-> "None", of |-> <<>>]

Unassigned == {[form |-> "unset", of |-> <<>>], [form |-> "default", of |-> <<>>]}

\* _leading_whitespace_re.findall(text): a match needs a character that is not
\* a space after the leading spaces, which the newline that ends a line is; so
\* a last line of spaces only has no match.
leading_whitespace(text) ==
    {i \in DOMAIN text : text[i].code # "" \/ i < Len(text)}

\* The margin: the shortest of the indents found; none when there is no match.
dedent_margin(text) ==
    LET found == leading_whitespace(text)
    IN  IF found = {} THEN 0
        ELSE CHOOSE k \in {text[i].indent : i \in found} :
                \A i \in found : k <= text[i].indent

\* PyCode.dedent: re.sub(r"(?m)^" + margin, "", text) removes the margin from
\* each line that starts with it.
dedent(text) ==
    LET margin == dedent_margin(text)
    IN  [text |-> [i \in DOMAIN text |->
                     IF text[i].indent >= margin
                     THEN [text[i] EXCEPT !.indent = @ - margin]
                     ELSE text[i]],
         col_offset |-> margin]

\* self.mode as __init__ reads it to decide on the dedent: the mode argument
\* is assigned to self.mode only afterwards, so the read finds the default of
\* the class.
PyCode_default_mode == "eval"

PyCode_mode_read(mode) == PyCode_default_mode

\* PyCode.__init__(source, loc, mode), for a source that is no PyExpr.
PyCode_init(source, loc, mode) ==
    LET dedented == PyCode_mode_read(mode) # "eval"
    IN  [py |-> 3,
         filename |-> loc.filename,
         linenumber |-> loc.linenumber,
         hashcode |-> hash32(source),
         source |-> IF dedented THEN dedent(source).text ELSE source,
         col_offset |-> IF dedented THEN dedent(source).col_offset ELSE 0,
         mode |-> mode,
         bytecode |-> HashNone]

\* PyCode.__getstate__: a tuple of seven; older versions wrote the first four,
\* five or six.
PyCode_getstate(self) ==
    [len |-> 7, version |-> 1, source |-> self.source,
     location |-> [filename |-> self.filename, linenumber |-> self.linenumber],
     mode |-> self.mode, py |-> self.py, hashcode |-> self.hashcode,
     col_offset |-> self.col_offset]

\* PyCode.__setstate__(state) on a new object; slot is what its hashcode reads
\* as when the method has not assigned it.
PyCode_setstate(state, slot) ==
    LET col_offset == IF state.len >= 7 THEN state.col_offset ELSE 0
        py == IF state.len >= 5 THEN state.py ELSE 2
        hashcode == IF state.len >= 6 THEN state.hashcode ELSE HashNone
    IN  [py |-> py,
         source |-> state.source,
         filename |-> state.location.filename,
         linenumber |-> state.location.linenumber,
         col_offset |-> col_offset,
         mode |-> state.mode,
         hashcode |-> IF hashcode = HashNone THEN hash32(state.source) ELSE slot,
         bytecode |-> HashNone]

\* case _: raise Exception("Invalid state:", state)
PyCode_state_valid(state) == state.len \in 4 .. 7

InitPyCode ==
    /\ nodes = <<>>
    /\ ctx = InitCtx
    /\ store = InitStore
    /\ game = InitGame(<<>>, <<>>)
    /\ config = InitConfig
    /\ \E loc \in Locs :
          obs = [op |-> "none", raised |-> FALSE, source |-> <<Line(0, "")>>, mode |-> "eval",
                 before |-> PyCode_init(<<Line(0, "")>>, loc, "eval"),
                 code |-> PyCode_init(<<Line(0, "")>>, loc, "eval")]
    /\ hist = NoHist

\* PyCode(source, loc, mode)
NewPyCode ==
    /\ obs.op = "none"
    /\ \E source \in Sources, mode \in Modes :
          LET loc == [filename |-> obs.code.filename, linenumber |-> obs.code.linenumber]
              new == PyCode_init(source, loc, mode)
          IN  obs' = [op |-> "__init__", raised |-> FALSE, source |-> source, mode |-> mode,
                      before |-> new, code |-> new]
    /\ UNCHANGED <<nodes, ctx, store, game, config, hist>>

\* The object is serialised and loaded again.
Reload ==
    /\ obs.op # "none" /\ ~obs.raised
    /\ \E slot \in Unassigned :
          obs' = [obs EXCEPT !.op = "__setstate__",
                             !.before = obs.code,
                             !.code = PyCode_setstate(PyCode_getstate(obs.code), slot)]
    /\ UNCHANGED <<nodes, ctx, store, game, config, hist>>

\* A state written by an older version, or an invalid one, is loaded.
LoadOlder ==
    /\ obs.op = "__init__"
    /\ \E len \in 3 .. 6, slot \in Unassigned :
          LET state == [PyCode_getstate(obs.code) EXCEPT !.len = len]
          IN  obs' = IF PyCode_state_valid(state)
                     THEN [obs EXCEPT !.op = "load", !.before = obs.code,
                                      !.code = PyCode_setstate(state, slot)]
                     ELSE [obs EXCEPT !.op = "load", !.raised = TRUE]
    /\ UNCHANGED <<nodes, ctx, store, game, config, hist>>

NextPyCode == NewPyCode \/ Reload \/ LoadOlder

SpecPyCode == InitPyCode /\ [][NextPyCode]_vars

----------------------------------------------------------------------------
\* The chaining specification: chain(X) applied to the nodes of a parsed, not yet
\* chained, tree.

ChainToplevel == <<1, 13, 15, 17, 20>>

ChainScript ==
    <<Label("start", <<2, 5, 8, 11>>, NoParams),
        While("c_loop", <<3, 4>>),
          Pass,
          Pass,
        If(<<Entry("c_a", <<6>>), Entry("c_b", <<7>>)>>),
          Pass,
          Return(FALSE),
        Menu(<<Item("A", "True", <<9>>), Item("B", "True", <<10>>)>>, NoneStr, <<>>),
          Jump("start", FALSE),
          Pass,
        Translate("id1", NoneStr, <<12>>, NoneStr),
          Say("e", "hello"),
      InitNode(<<14>>, 0),
        Python(0),
      TranslateBlock("fr", <<16>>),
        Pass,
      UserStatement(<<18>>, <<Entry("", <<19>>)>>),
        Pass,
        Pass,
      Pass>>

\* The number of chain calls made on one tree.
MaxChains == 2

\* The blocks a node owns, and the nodes below it.
OwnedBlocks(self) ==
    {b \in {self.block} \cup {self.entries[e].block : e \in DOMAIN self.entries}
                        \cup {self.items[e].block : e \in DOMAIN self.items} : b # <<>>}

RECURSIVE Subtree(_, _)
Subtree(ns, n) ==
    LET children == UNION {Range(b) : b \in OwnedBlocks(ns[n])}
    IN  {n} \cup UNION {Subtree(ns, c) : c \in children}

\* What a node may be chained to: nothing, a top-level statement or the loop
\* around it, outside the node itself.
ChainTargets(ns, n) == ({None, 2} \cup Range(ChainToplevel)) \ Subtree(ns, n)

InitChain ==
    /\ nodes = assign_names(ChainScript)
    /\ ctx = InitCtx
    /\ store = InitStore
    /\ game = InitGame(nodes, ChainToplevel)
    /\ config = InitConfig
    /\ obs = [op |-> "parsed", n |-> None, x |-> None, calls |-> 0]
    /\ hist = NoHist

\* N.chain(X)
Chain ==
    /\ obs.calls < MaxChains
    /\ \E n \in {i \in DOMAIN nodes : OwnedBlocks(nodes[i]) # {}} :
       \E x \in ChainTargets(nodes, n) :
          /\ nodes' = chain(nodes, n, x)
          /\ obs' = [op |-> "chain", n |-> n, x |-> x, calls |-> obs.calls + 1]
    /\ UNCHANGED <<ctx, store, game, config, hist>>

NextChain == Chain

SpecChain == InitChain /\ [][NextChain]_vars

----------------------------------------------------------------------------
\* replace_next.

\* block.insert(0, new) when the block starts with old.
block_insert_appended(b, old, new) == IF b # <<>> /\ b[1] = old THEN Append(b, new) ELSE b

block_insert(b, old, new) == IF b # <<>> /\ b[1] = old THEN <<new>> \o b ELSE b

\* The same for the block of each entry of an If or a UserStatement (whose
\* subparse blocks are not empty), and of each item of a Menu.
blocks_insert(seq, old, new) ==
    [i \in DOMAIN seq |-> [seq[i] EXCEPT !.block = block_insert(@, old, new)]]

\* Node.replace_next
Node_replace_next(self, old, new) == IF self.next = old THEN [self EXCEPT !.next = new] ELSE self

\* replace_next of each class, on node n of the script.
replace_next(ns, n, old, new) ==
    LET self == Node_replace_next(ns[n], old, new)
        k == self.kind
        r == CASE k = "While" -> [self EXCEPT !.block = block_insert(@, old, new)]
               [] k = "Menu" -> [self EXCEPT !.items = blocks_insert(@, old, new)]
               [] k = "If" -> [self EXCEPT !.entries = blocks_insert(@, old, new)]
               [] k = "UserStatement" ->
                    [self EXCEPT !.block = block_insert(@, old, new),
                                 !.entries = blocks_insert(@, old, new)]
               [] k = "Translate" ->
                    [self EXCEPT !.block = block_insert(@, old, new),
                                 !.after = IF @ = old THEN new ELSE @]
               [] OTHER -> self
    IN  [ns EXCEPT ![n] = r]

\* The number of replace_next calls made on one tree.
MaxReplaces == 2

\* The script of the chain specification, with the statements that the calls
\* insert (one for each call).
ReplaceScript == ChainScript \o [i \in 1 .. MaxReplaces |-> Pass]

Inserted(k) == Len(ChainScript) + k

\* The statements replace_next is called on.
Replacers(ns) ==
    {n \in 1 .. Len(ChainScript) :
        ns[n].kind \in {"Label", "While", "If", "Menu", "Translate", "Init",
                        "TranslateBlock", "UserStatement", "Pass"}}

first_of(b) == IF b = <<>> THEN None ELSE b[1]

\* The nodes that may be passed as old: what the node links to, and a statement
\* it does not link to.
Olds(ns, n) ==
    ({ns[n].next, ns[n].after, 20} \cup {first_of(b) : b \in OwnedBlocks(ns[n])}) \ {None, n}

InitReplace ==
    /\ nodes = load_script(ReplaceScript, ChainToplevel)
    /\ ctx = InitCtx
    /\ store = InitStore
    /\ game = InitGame(nodes, ChainToplevel)
    /\ config = InitConfig
    /\ obs = [op |-> "loaded", n |-> None, old |-> None, new |-> None, calls |-> 0]
    /\ hist = NoHist

\* n.replace_next(old, new)
ReplaceNext ==
    /\ obs.calls < MaxReplaces
    /\ \E n \in Replacers(nodes) : \E old \in Olds(nodes, n) :
          LET new == Inserted(obs.calls + 1)
          IN  /\ nodes' = replace_next(nodes, n, old, new)
              /\ obs' = [op |-> "replace_next", n |-> n, old |-> old, new |-> new,
                         calls |-> obs.calls + 1]
    /\ UNCHANGED <<ctx, store, game, config, hist>>

NextReplace == ReplaceNext

SpecReplace == InitReplace /\ [][NextReplace]_vars

----------------------------------------------------------------------------
\* Static reachability.

\* Node.get_reachable: the next node, if any.
Node_get_reachable(ns, n) == IF ns[n].next = None THEN <<>> ELSE <<ns[n].next>>

Target_get_reachable_looked_up(ns, n) ==
    LET target == lookup_or_none(ns, LabelName(ns[n].target))
    IN  IF target # None
        THEN <<target>> \o Node_get_reachable(ns, n)
        ELSE Node_get_reachable(ns, n)

\* Call.get_reachable, Jump.get_reachable: a static target label comes first.
Target_get_reachable(ns, n) ==
    LET target == lookup_or_none(ns, LabelName(ns[n].target))
    IN  IF ~ns[n].expression /\ target # None
        THEN <<target>> \o Node_get_reachable(ns, n)
        ELSE Node_get_reachable(ns, n)

\* Menu.get_reachable: the first node of every choice block, then the next node.
Menu_get_reachable(ns, n) ==
    LET blocks == SelectSeq(ns[n].items, LAMBDA it : it.block # <<>>)
    IN  [i \in 1 .. Len(blocks) |-> blocks[i].block[1]] \o Node_get_reachable(ns, n)

\* While.get_reachable
While_get_reachable(ns, n) ==
    IF ns[n].condition = "True"
    THEN <<ns[n].block[1]>>
    ELSE <<ns[n].block[1]>> \o Node_get_reachable(ns, n)

\* If.get_reachable: the blocks up to the first branch that is always true; the
\* next node only when there is no such branch.
RECURSIVE If_get_reachable(_, _, _)
If_get_reachable(ns, n, i) ==
    IF i > Len(ns[n].entries) THEN Node_get_reachable(ns, n)
    ELSE IF ns[n].entries[i].condition = "True" THEN <<ns[n].entries[i].block[1]>>
    ELSE <<ns[n].entries[i].block[1]>> \o If_get_reachable(ns, n, i + 1)

\* The elements of a set of nodes, in script order.
RECURSIVE InOrder(_)
InOrder(S) ==
    IF S = {} THEN <<>>
    ELSE LET least == CHOOSE i \in S : \A j \in S : i <= j
         IN  <<least>> \o InOrder(S \ {least})

\* Translator.get_all_translates(identifier): the translates of the identifier
\* in each language.
get_all_translates(ns, identifier) ==
    InOrder({i \in DOMAIN ns : /\ IsTranslate(ns, i)
                               /\ ns[i].language # NoneStr
                               /\ ns[i].identifier = identifier})

\* Translate.get_reachable, TranslateSay.get_reachable
Translate_get_reachable(ns, n) ==
    LET having == SelectSeq(get_all_translates(ns, ns[n].identifier),
                            LAMBDA t : ns[t].kind = "Translate" /\ ns[t].block # <<>>)
    IN  IF ns[n].language # NoneStr THEN Node_get_reachable(ns, n)
        ELSE Node_get_reachable(ns, n) \o [i \in 1 .. Len(having) |-> ns[having[i]].block[1]]

get_reachable(ns, n) ==
    CASE ns[n].kind \in {"Call", "Jump"} -> Target_get_reachable(ns, n)
      [] ns[n].kind = "Menu" -> Menu_get_reachable(ns, n)
      [] ns[n].kind = "While" -> While_get_reachable(ns, n)
      [] ns[n].kind = "If" -> If_get_reachable(ns, n, 1)
      [] ns[n].kind \in {"Translate", "TranslateSay"} -> Translate_get_reachable(ns, n)
      [] OTHER -> Node_get_reachable(ns, n)

\* The node validators a caller may pass: _reach_any, and three that prune.
Validators == {"any", "forward", "no_label", "none"}

node_validator(ns, f, source, target) ==
    CASE f = "any" -> TRUE
      [] f = "forward" -> target > source
      [] f = "no_label" -> ns[target].kind # "Label"
      [] OTHER -> FALSE

\* The test that guards worklist.append, were the validator not consulted.
reach_accepts_any(ns, st, node, n) == n \notin st.seen

\* The two tests that guard worklist.append(n), made after seen.add(node).
reach_accepts(ns, st, node, n) ==
    n \notin st.seen /\ node_validator(ns, st.node_validator, node, n)

\* worklist.append(n), were the worklist a stack.
reach_push(worklist, fresh) == fresh \o worklist

\* worklist.append(n) for each accepted n, in order.
reach_append(worklist, fresh) == worklist \o fresh

\* seen.add(node), left out.
reach_seen_forgotten(seen, node) == seen

\* seen.add(node)
reach_seen_add(seen, node) == seen \cup {node}

\* if node in seen, were only the nodes of this call looked at.
reach_seen_this_call(st, node) == node \in Range(st.result)

\* if node in seen: continue
reach_seen(st, node) == node \in st.seen

\* One iteration of the loop of get_reachable_nodes.
reach_iterate(ns, st) ==
    LET node == Head(st.worklist)
        popped == [st EXCEPT !.worklist = Tail(@)]
        added == [popped EXCEPT !.seen = reach_seen_add(@, node),
                                !.result = Append(@, node)]
        fresh == SelectSeq(get_reachable(ns, node),
                           LAMBDA n : reach_accepts(ns, added, node, n))
    IN  IF reach_seen(st, node) THEN popped
        ELSE [added EXCEPT !.worklist = reach_append(@, fresh)]

\* script.rpy and tl/fr of the reachability specification.
ReachToplevel == <<1, 13, 17, 19, 20>>

ReachScript ==
    <<Label("start", <<2, 4, 7, 9, 11, 12>>, NoParams),
        While("c_loop", <<3>>),
          Pass,
        If(<<Entry("c_a", <<5>>), Entry("True", <<6>>)>>),
          Call("sub", FALSE, FALSE),
          Pass,
        Menu(<<Item("A", "True", <<8>>)>>, NoneStr, <<>>),
          Jump("sub", TRUE),
        Translate("id1", NoneStr, <<10>>, NoneStr),
          Say("e", "hello"),
        EndTranslate,
        Jump("start", FALSE),
      Label("sub", <<14, 16>>, NoParams),
        While("True", <<15>>),
          Pass,
        Return(FALSE),
      Translate("id1", "fr", <<18>>, NoneStr),
        Say("e", "bonjour"),
      EndTranslate,
      Label("dyn", <<21, 22>>, NoParams),
        Call("start", TRUE, FALSE),
        Return(FALSE)>>

\* The entry lists and the seen sets a caller may pass (no set is the empty one).
ReachEntries ==
    {<<>>, <<1>>, <<13>>, <<1, 13>>, <<13, 1>>, <<4, 4>>, <<12, 5>>, <<17, 9>>, <<20>>, <<8>>}

ReachSeen == {{}, {4}, {1, 15}}

\* The calls that share one seen set, and the entry lists of the later ones.
MaxCalls == 2

ReachAgainEntries == {<<1>>, <<13>>, <<20>>, <<12, 5>>}

InitReach ==
    /\ nodes = load_script(ReachScript, ReachToplevel)
    /\ ctx = InitCtx
    /\ store = InitStore
    /\ game = InitGame(nodes, ReachToplevel)
    /\ config = InitConfig
    /\ obs = [op |-> "loaded"]
    /\ hist = NoHist

\* get_reachable_nodes(entry_nodes, node_validator, seen) is called.
ReachCall ==
    /\ obs.op = "loaded" \/ (obs.op = "reach" /\ obs.returned)
    /\ \E e \in ReachEntries, f \in Validators, s0 \in ReachSeen :
          obs' = [op |-> "reach", returned |-> FALSE, entry_nodes |-> e,
                  node_validator |-> f, seen0 |-> s0,
                  worklist |-> e, seen |-> s0, result |-> <<>>,
                  calls |-> 1, seen_start |-> s0,
                  prev_entries |-> <<>>, prev_result |-> <<>>]
    /\ UNCHANGED <<nodes, ctx, store, game, config, hist>>

\* get_reachable_nodes is called again with the seen set of the call that has
\* returned, and the same validator.
ReachCallShared ==
    /\ obs.op = "reach" /\ obs.returned
    /\ obs.calls < MaxCalls
    /\ \E e \in ReachAgainEntries :
          obs' = [op |-> "reach", returned |-> FALSE, entry_nodes |-> e,
                  node_validator |-> obs.node_validator, seen0 |-> obs.seen,
                  worklist |-> e, seen |-> obs.seen, result |-> <<>>,
                  calls |-> obs.calls + 1, seen_start |-> obs.seen_start,
                  prev_entries |-> obs.prev_entries \o obs.entry_nodes,
                  prev_result |-> obs.prev_result \o obs.result]
    /\ UNCHANGED <<nodes, ctx, store, game, config, hist>>

\* while worklist: one iteration.
ReachIterate ==
    /\ obs.op = "reach" /\ ~obs.returned /\ obs.worklist # <<>>
    /\ obs' = reach_iterate(nodes, obs)
    /\ UNCHANGED <<nodes, ctx, store, game, config, hist>>

\* return result
ReachReturn ==
    /\ obs.op = "reach" /\ ~obs.returned /\ obs.worklist = <<>>
    /\ obs' = [obs EXCEPT !.returned = TRUE]
    /\ UNCHANGED <<nodes, ctx, store, game, config, hist>>

NextReach == ReachCall \/ ReachCallShared \/ ReachIterate \/ ReachReturn

SpecReach == InitReach /\ [][NextReach]_vars

----------------------------------------------------------------------------
\* diff_info: the tuple by which two nodes are compared.

\* id(self): the identity of the object at place n of the arena.
object_id(n) == <<"object", n>>

\* Node.diff_info and its overrides; the class that heads a tuple is written as
\* its name.
diff_info(ns, n) ==
    LET self == ns[n]
        k == self.kind
    IN  CASE k = "Say" -> <<"Say", self.who, self.what>>
          [] k = "Label" -> <<"Label", self.name>>
          [] k = "Python" -> <<"Python", self.code>>
          [] k = "Call" -> <<"Call", self.target, self.expression>>
          [] k = "Return" -> <<"Return">>
          [] k = "Menu" -> <<"Menu">>
          [] k = "Jump" -> <<"Jump", self.target, self.expression>>
          [] k = "Pass" -> <<"Pass">>
          [] k = "While" -> <<"While", self.condition>>
          [] k = "If" -> <<"If">>
          [] k = "Translate" -> <<"Translate", self.identifier, self.language>>
          [] k = "TranslateSay" ->
               IF self.language = NoneStr THEN <<"Say", self.who, self.what>>
               ELSE <<"TranslateSay", self.identifier, self.language>>
          [] k = "EndTranslate" -> <<"EndTranslate">>
          [] OTHER -> <<object_id(n)>>

\* What the parser may hand to a constructor: every variant, each with two
\* values of the fields its execute() reads.
DiffSources ==
    {Pass, Python(0), Python(1),
     Say("e", "hello"), Say("e", "bye"), Say("n", "hello"),
     InitNode(<<>>, 0), InitNode(<<>>, 1),
     Label("a", <<>>, NoParams), Label("b", <<>>, NoParams), Label("a", <<>>, Params(0)),
     Call("a", FALSE, FALSE), Call("a", TRUE, FALSE), Call("a", FALSE, TRUE),
     Return(FALSE), Return(TRUE),
     Jump("a", FALSE), Jump("b", FALSE),
     While("c_a", <<>>), While("c_b", <<>>),
     If(<<Entry("c_a", <<>>)>>), If(<<Entry("c_b", <<>>)>>),
     Menu(<<Item("A", "True", <<>>)>>, NoneStr, <<>>),
     Menu(<<Item("B", "True", <<>>)>>, "trans", <<>>),
     Translate("id1", NoneStr, <<>>, NoneStr), Translate("id1", "fr", <<>>, NoneStr),
     Translate("id2", NoneStr, <<>>, NoneStr),
     TranslateSay("e", "hello", "id1", NoneStr, NoneStr),
     TranslateSay("e", "hello", "id1", "fr", NoneStr),
     TranslateSay("e", "bye", "id1", NoneStr, NoneStr),
     EndTranslate,
     TranslateBlock("fr", <<>>), TranslateBlock("de", <<>>)}

\* Two nodes are constructed, each from its own source input.
InitDiff ==
    /\ \E a, b \in DiffSources : nodes = <<a, b>>
    /\ ctx = InitCtx
    /\ store = InitStore
    /\ game = InitGame(nodes, <<1, 2>>)
    /\ config = InitConfig
    /\ obs = [op |-> "constructed"]
    /\ hist = NoHist

\* diff_info() of both.
DiffInfo ==
    /\ obs.op = "constructed"
    /\ obs' = [op |-> "diff_info", a |-> diff_info(nodes, 1), b |-> diff_info(nodes, 2)]
    /\ UNCHANGED <<nodes, ctx, store, game, config, hist>>

NextDiff == DiffInfo

SpecDiff == InitDiff /\ [][NextDiff]_vars

----------------------------------------------------------------------------
\* Claims about call, return and jump.

\* The statement the context has just executed.
Self == nodes[ctx.current]

\* C1 (as amended): when a Return matches a Call whose following statement is S,
\* the next node is S, the dynamic scope of that call is popped, and a variable
\* shadowed during the call has again the value it had when it was first
\* shadowed in that call.
C1_ReturnRestores ==
    hist.returned # NoCall =>
        /\ ctx.next_node = hist.returned.site
        /\ Len(ctx.dynamic_stack) = Len(hist.unmatched) + 1
        /\ (hist.returned.saved # NoneVal => store.x = hist.returned.saved)

\* C1 as stated: a variable shadowed during the call has again the value it had
\* before the call.
C1_Original ==
    hist.returned # NoCall =>
        /\ ctx.next_node = hist.returned.site
        /\ Len(ctx.dynamic_stack) = Len(hist.unmatched) + 1
        /\ (hist.returned.saved # NoneVal => store.x = hist.returned.x)

\* A Return has matched a Call during which x was shadowed, and has changed x back.
C1_Witness ==
    /\ hist.returned # NoCall
    /\ hist.returned.saved # NoneVal
    /\ hist.returned.before # store.x

\* C2: outside the init phase the return stack names, in call order, the
\* statements following the Calls not yet matched by a Return, and a Return
\* pops the top entry alone and resumes at the site of the latest unmatched Call.
C2_ReturnStackLIFO ==
    ~ctx.init_phase =>
        /\ Len(ctx.return_stack) = Len(hist.unmatched)
        /\ \A i \in DOMAIN ctx.return_stack :
              /\ i <= Len(hist.unmatched)
              /\ lookup_or_none(nodes, ctx.return_stack[i]) = hist.unmatched[i].site
        /\ (obs.op = "Return" /\ obs.nn # <<>> =>
              /\ hist.returned # NoCall
              /\ ctx.next_node = hist.returned.site)

\* A Return has unwound the inner of two nested calls with different return sites.
C2_Witness ==
    /\ ~ctx.init_phase
    /\ obs.op = "Return"
    /\ hist.returned # NoCall
    /\ Len(ctx.return_stack) = 1
    /\ lookup_or_none(nodes, ctx.return_stack[1]) # hist.returned.site

\* C3: a Jump whose target resolves sets the next node to the target label's
\* node and leaves the return stack and the dynamic scopes as they were, so the
\* return stack still names the sites of the unmatched Calls alone.
C3_JumpFrame ==
    [][(obs'.op = "Jump" /\ ~obs'.raised) =>
          /\ ctx'.next_node # None
          /\ nodes[ctx'.next_node].kind = "Label"
          /\ nodes[ctx'.next_node].name =
                LabelName(IF nodes[ctx'.current].expression
                          THEN obs'.label_out.val ELSE nodes[ctx'.current].target)
          /\ ctx'.return_stack = ctx.return_stack
          /\ ctx'.dynamic_stack = ctx.dynamic_stack
          /\ hist'.unmatched = hist.unmatched]_vars

\* A Jump by expression has run inside a call.
C3_Witness ==
    /\ obs.op = "Jump"
    /\ ~obs.raised
    /\ Self.expression
    /\ ctx.return_stack # <<>>
    /\ ctx.next_node # None

----------------------------------------------------------------------------
\* Claims about while and if.

\* The node that falling off the end of a block leads to.
FallsTo(ns, block) == ns[block[Len(block)]].next

\* C4: a While evaluates its condition once each time it is reached; if true the
\* next node is the first body statement, and the end of the body leads back to
\* the While; if false the next node is While.next.
C4_While ==
    /\ \A w \in DOMAIN nodes :
          (nodes[w].kind = "While" /\ nodes[w].block # <<>>
           /\ nodes[nodes[w].block[Len(nodes[w].block)]].kind \in {"Pass", "Python", "Say"})
             => FallsTo(nodes, nodes[w].block) = w
    /\ obs.op = "While" =>
          /\ obs.evals = <<Self.condition>>
          /\ (~obs.raised /\ obs.cond_outs[1].val => ctx.next_node = Self.block[1])
          /\ (~obs.raised /\ ~obs.cond_outs[1].val => ctx.next_node = Self.next)

\* A While has found its condition true and entered its body.
C4_Witness ==
    /\ obs.op = "While"
    /\ ~obs.raised
    /\ obs.cond_outs[1].val
    /\ ctx.next_node = Self.block[1]
    /\ ctx.next_node # Self.next

\* The entries whose condition evaluates to true.
TrueEntries(outs) == {i \in DOMAIN outs : outs[i].ok /\ outs[i].val}

FirstTrue(outs) == CHOOSE i \in TrueEntries(outs) : \A j \in TrueEntries(outs) : i <= j

\* C5: an If evaluates its conditions in declared order up to the first true
\* one and continues at the first statement of that entry's block; with none true
\* it evaluates them all and continues at If.next.
C5_If ==
    (obs.op = "If" /\ ~obs.raised) =>
        IF TrueEntries(obs.cond_outs) # {}
        THEN LET k == FirstTrue(obs.cond_outs)
             IN  /\ obs.evals = [i \in 1 .. k |-> Self.entries[i].condition]
                 /\ ctx.next_node = Self.entries[k].block[1]
        ELSE /\ obs.evals = [i \in 1 .. Len(Self.entries) |-> Self.entries[i].condition]
             /\ ctx.next_node = Self.next

\* An If has taken its first entry and left the second, also true, unevaluated.
C5_Witness ==
    /\ obs.op = "If"
    /\ ~obs.raised
    /\ Len(Self.entries) = 2
    /\ TrueEntries(obs.cond_outs) = {1, 2}
    /\ Len(obs.evals) = 1
    /\ ctx.next_node = Self.entries[1].block[1]

----------------------------------------------------------------------------
\* Claims about menus.

\* The items of a menu that are not merged into the narration, in declaration order.
ChoiceItems(self) ==
    LET kept(i) == ~(~self.items[i].hasblock /\ config.narrator_menu
                     /\ self.items[i].label # "")
    IN  SelectSeq([i \in 1 .. Len(self.items) |-> i], kept)

\* Those of them whose guard is true.
TrueItems(self, outs) ==
    LET true(i) == outs[i].ok /\ outs[i].val
    IN  SelectSeq(ChoiceItems(self), true)

ItemsOf(list) == [k \in 1 .. Len(list) |-> list[k].item]

\* C6: the chooser is offered the choices in declaration order, the entries
\* merged into the narration left out; it presents exactly those whose guard is
\* true; and the per-choice arguments match the choices one for one.
C6_MenuChoices ==
    (obs.op = "Menu" /\ obs.chose) =>
        /\ ItemsOf(obs.choices) = ChoiceItems(Self)
        /\ \A k \in DOMAIN obs.choices :
              /\ obs.choices[k].label = Self.items[obs.choices[k].item].label
              /\ obs.choices[k].condition = Self.items[obs.choices[k].item].condition
              /\ obs.choices[k].value =
                    (IF Self.items[obs.choices[k].item].hasblock
                     THEN obs.choices[k].item ELSE None)
        /\ ItemsOf(obs.presented) = TrueItems(Self, obs.cond_outs)
        /\ ItemsOf(obs.item_arguments) = ItemsOf(obs.choices)
        /\ \A k \in DOMAIN obs.narration :
              \A j \in DOMAIN obs.choices : obs.narration[k] # obs.choices[j].label

\* A menu has merged an entry into the narration, offered two choices of which
\* only the second has arguments, and presented the second alone.
C6_Witness ==
    /\ obs.op = "Menu"
    /\ obs.chose
    /\ obs.narration # <<>>
    /\ Len(obs.choices) = 2
    /\ Len(obs.item_arguments) = 2
    /\ ItemsOf(obs.presented) = <<3>>
    /\ HasItemArguments(Self, 2)
    /\ ~HasItemArguments(Self, 3)

\* Where control goes when statement n ends without transferring control itself.
RECURSIVE FallThrough(_, _)
FallThrough(ns, n) ==
    LET self == ns[n]
        last(block) == block[Len(block)]
    IN  CASE self.kind \in {"Return", "Jump"} -> {}
          [] self.kind \in {"Label", "Translate"} ->
               IF self.block = <<>> THEN {self.next} ELSE FallThrough(ns, last(self.block))
          [] self.kind = "If" ->
               {self.next} \cup UNION {FallThrough(ns, last(self.entries[e].block)) :
                                          e \in {i \in DOMAIN self.entries :
                                                    self.entries[i].block # <<>>}}
          [] self.kind = "Menu" ->
               {self.next} \cup UNION {FallThrough(ns, last(self.items[e].block)) :
                                          e \in {i \in DOMAIN self.items :
                                                    self.items[i].block # <<>>}}
          [] OTHER -> {self.next}

\* The menus of the script, and the items of a menu that have a block.
Menus == {i \in DOMAIN nodes : nodes[i].kind = "Menu"}

BlockItems(self) == {i \in DOMAIN self.items : self.items[i].block # <<>>}

\* What Menu.execute does with the chooser's answer.
MenuTransfers ==
    (obs.op = "Menu" /\ ~obs.raised) =>
        /\ obs.chose
        /\ (obs.choice # None => ctx.next_node = Self.items[obs.choice].block[1])
        /\ (obs.choice = None => ctx.next_node = Self.next)

\* C7 (as amended): with a selection the next node is the first statement of the
\* selected choice's block, without one it is Menu.next; and control that falls
\* off the end of a choice block continues at Menu.next, a block that ends in a
\* Return or Jump having no successor.
C7_MenuTransfer ==
    /\ MenuTransfers
    /\ \A u \in Menus : \A i \in BlockItems(nodes[u]) :
          LET block == nodes[u].items[i].block
              end == nodes[block[Len(block)]]
          IN  /\ FallThrough(nodes, block[Len(block)]) \subseteq {nodes[u].next}
              /\ end.kind \notin {"Return", "Jump"} => end.next = nodes[u].next
              /\ end.kind \in {"Return", "Jump"} => end.next = None

\* C7 as stated: every choice block ends by continuing at Menu.next.
C7_Original ==
    /\ MenuTransfers
    /\ \A u \in Menus : \A i \in BlockItems(nodes[u]) :
          LET block == nodes[u].items[i].block
          IN  nodes[block[Len(block)]].next = nodes[u].next

\* The user has picked the second choice with a block, which is not the
\* statement after the menu.
C7_Witness ==
    /\ obs.op = "Menu"
    /\ ~obs.raised
    /\ obs.choice = 3
    /\ ctx.next_node = Self.items[3].block[1]
    /\ ctx.next_node # Self.next
    /\ nodes[ctx.next_node].next = Self.next

----------------------------------------------------------------------------
\* Claims about translation.

\* The translate node registered for the active language under the identifier
\* of a canonical node, else under its alternate identifier; None without one.
Variant(self) ==
    LET of(id) == {i \in DOMAIN nodes : /\ nodes[i].kind \in {"Translate", "TranslateSay"}
                                        /\ config.language # NoneStr
                                        /\ nodes[i].language = config.language
                                        /\ id # NoneStr
                                        /\ nodes[i].identifier = id}
    IN  IF of(self.identifier) # {} THEN CHOOSE i \in of(self.identifier) : TRUE
        ELSE IF of(self.alternate) # {} THEN CHOOSE i \in of(self.alternate) : TRUE
        ELSE None

\* Where a variant starts: the first node of a Translate's block, a TranslateSay
\* itself.
VariantEntry(v) == IF nodes[v].kind = "TranslateSay" THEN v ELSE nodes[v].block[1]

IdentifiersSet(self) ==
    /\ ctx.translate_identifier = self.identifier
    /\ ctx.alternate_translate_identifier = self.alternate

OwnDialogue(self) ==
    [who |-> self.who, what |-> self.what,
     translate_identifier |-> self.identifier,
     alternate_translate_identifier |-> self.alternate]

\* C8: after a canonical Translate or TranslateSay has executed, control is at
\* the variant of the active language when there is one, with the context's
\* translation identifiers set to the node's identifier and alternate;
\* otherwise a Translate continues in its own block with the identifiers set,
\* and a TranslateSay has said its own dialogue, with the identifiers set while
\* it was said, and continues at its next.
C8_TranslateDispatch ==
    (obs.op \in {"Translate", "TranslateSay"} /\ Self.language = NoneStr) =>
        IF Variant(Self) # None
        THEN /\ ~obs.raised
             /\ ctx.next_node = VariantEntry(Variant(Self))
             /\ obs.said = <<>>
             /\ IdentifiersSet(Self)
        ELSE IF Self.kind = "Translate"
        THEN /\ ~obs.raised
             /\ ctx.next_node = Self.block[1]
             /\ IdentifiersSet(Self)
        ELSE /\ ctx.next_node = Self.next
             /\ obs.said = <<OwnDialogue(Self)>> \/ (obs.raised /\ obs.said = <<>>)

\* A canonical Translate has sent control to the French block of its identifier.
C8_Witness ==
    /\ obs.op = "Translate"
    /\ Self.language = NoneStr
    /\ config.language = "fr"
    /\ Variant(Self) # None
    /\ nodes[ctx.next_node].what = "bonjour"
    /\ ctx.translate_identifier = "id1"

\* The identifiers a seen set holds, under either form.
SeenIds(S) == {k.of : k \in S}

\* C9: the seen and the new counter have risen together, by the number of
\* distinct identifiers whose bookkeeping ran and that the seen set did not hold
\* before; the seen set holds each of these identifiers under exactly one form,
\* and grew by one key for each.
C9_SeenOnce ==
    /\ game.seen_translates_count - Cardinality(hist.seen0) = game.new_translates_count
    /\ game.new_translates_count = Cardinality(hist.ran \ SeenIds(hist.seen0))
    /\ Cardinality(game.seen_translates) = Cardinality(hist.seen0) + game.new_translates_count
    /\ hist.ran \subseteq SeenIds(game.seen_translates)
    /\ \A id \in SeenIds(game.seen_translates) :
          ~(raw(id) \in game.seen_translates /\ hash64(id) \in game.seen_translates)

\* Identifiers were recorded under both policies, and one the seen set already
\* held was run again.
C9_Witness ==
    /\ \E a, b \in hist.ran : /\ a # b
                              /\ raw(a) \in game.seen_translates \ hist.seen0
                              /\ hash64(b) \in game.seen_translates \ hist.seen0
    /\ hist.ran \cap SeenIds(hist.seen0) # {}
    /\ game.new_translates_count = 2
    /\ obs.op = "EndTranslate"

\* C10: the step that executes a Translate bound to a language raises, looks
\* nothing up, keeps the context's translation identifiers, and has set the next
\* node to the node's own next, once.
C10_LanguageBound ==
    [][(obs'.op = "Translate" /\ nodes'[ctx'.current].language # NoneStr) =>
          /\ obs'.raised
          /\ obs'.lookups = <<>>
          /\ ctx'.translate_identifier = ctx.translate_identifier
          /\ ctx'.alternate_translate_identifier = ctx.alternate_translate_identifier
          /\ obs'.nn = <<nodes'[ctx'.current].next>>
          /\ ctx'.next_node = nodes'[ctx'.current].next]_vars

\* The French translate of id1 was run directly, from inside the canonical block.
C10_Witness ==
    /\ obs.op = "Translate"
    /\ Self.language = "fr"
    /\ obs.raised
    /\ ctx.translate_identifier = "id1"
    /\ ctx.next_node = Self.block[1]

----------------------------------------------------------------------------
\* Claims about chaining.

\* The nodes met by following next pointers from n, up to the end of the chain
\* or the first node met again.
RECURSIVE NextPath(_, _, _)
NextPath(ns, n, seen) ==
    IF n = None \/ n \in seen THEN <<>>
    ELSE <<n>> \o NextPath(ns, ns[n].next, seen \cup {n})

Occurrences(p, x) == Cardinality({i \in DOMAIN p : p[i] = x})

\* The chain is not circular and stops at a node without a next.
EndsAtNone(ns, p) == p # <<>> /\ ns[p[Len(p)]].next = None

\* The chain from n reaches x once, ending at nothing when x is nothing.
ReachesOnce(ns, n, x) ==
    LET p == NextPath(ns, n, {})
    IN  IF x = None THEN EndsAtNone(ns, p) ELSE Occurrences(p, x) = 1

\* The chain from n stops at a Return or Jump without having reached x.
StopsAtTransfer(ns, n, x) ==
    LET p == NextPath(ns, n, {})
    IN  /\ EndsAtNone(ns, p)
        /\ ns[p[Len(p)]].kind \in {"Return", "Jump"}
        /\ Occurrences(p, x) = 0

Containers ==
    {"Label", "Init", "While", "If", "Menu", "UserStatement", "Translate", "TranslateBlock"}

\* C11 (as amended): after N.chain(X), the next pointers from the first child of
\* each block N owns reach X once (through N itself for a While), or stop
\* earlier at a Return or Jump, which have no next; the blocks of an Init or
\* TranslateBlock end at nothing instead of X.
C11_ChainReaches ==
    (obs.op = "chain" /\ nodes[obs.n].kind \in Containers) =>
        \A b \in OwnedBlocks(nodes[obs.n]) :
            LET to == IF nodes[obs.n].kind \in {"Init", "TranslateBlock"} THEN None ELSE obs.x
            IN  /\ ReachesOnce(nodes, b[1], to) \/ StopsAtTransfer(nodes, b[1], to)
                /\ nodes[obs.n].kind = "While" =>
                      /\ Occurrences(NextPath(nodes, b[1], {}), obs.n) = 1
                      /\ nodes[obs.n].next = obs.x

\* C11 as stated: after N.chain(X) the next pointers from the first child of
\* each block N owns reach X once.
C11_Original ==
    (obs.op = "chain" /\ nodes[obs.n].kind \in Containers) =>
        \A b \in OwnedBlocks(nodes[obs.n]) : ReachesOnce(nodes, b[1], obs.x)

\* A label with nested blocks was chained to a statement, and the chain from its
\* first child arrives there.
C11_Witness ==
    /\ obs.op = "chain"
    /\ nodes[obs.n].kind = "Label"
    /\ obs.x # None
    /\ Occurrences(NextPath(nodes, nodes[obs.n].block[1], {}), obs.x) = 1
    /\ Len(NextPath(nodes, nodes[obs.n].block[1], {})) > 4

----------------------------------------------------------------------------
\* Claims about static reachability.

\* A call of get_reachable_nodes is under way; it has returned.
Reaching == obs.op = "reach" /\ ~obs.returned

Reached == obs.op = "reach" /\ obs.returned

NoDuplicates(seq) == \A i, j \in DOMAIN seq : seq[i] = seq[j] => i = j

\* C12: every iteration of the loop of get_reachable_nodes either marks a node
\* not yet seen or shortens the worklist without marking any, so the loop ends
\* on any finite graph, cyclic or not; and the result never holds a node twice.
C12_ReachTerminates ==
    /\ [](obs.op = "reach" => NoDuplicates(obs.result) /\ obs.seen \subseteq DOMAIN nodes)
    /\ [][(Reaching /\ obs'.op = "reach" /\ ~obs'.returned) =>
             \/ Cardinality(obs'.seen) > Cardinality(obs.seen)
             \/ /\ obs'.seen = obs.seen
                /\ Len(obs'.worklist) < Len(obs.worklist)]_vars

\* The walk from the start label, through both loops and the jump back to the
\* label, has returned.
C12_Witness ==
    /\ Reached
    /\ obs.entry_nodes = <<1>>
    /\ obs.node_validator = "any"
    /\ obs.seen0 = {}
    /\ {1, 2, 3, 12, 13, 14, 15} \subseteq Range(obs.result)
    /\ nodes[3].next = 2
    /\ nodes[15].next = 14

\* A sequence without its repetitions and without the nodes of a set.
RECURSIVE Fresh(_, _)
Fresh(seq, known) ==
    IF seq = <<>> THEN <<>>
    ELSE IF Head(seq) \in known THEN Fresh(Tail(seq), known)
    ELSE <<Head(seq)>> \o Fresh(Tail(seq), known \cup {Head(seq)})

\* The edges the validator lets through.
Accepted(f, n) ==
    SelectSeq(get_reachable(nodes, n), LAMBDA m : node_validator(nodes, f, n, m))

\* Breadth-first order: the queue holds the nodes discovered and not yet
\* expanded; a node is discovered once.
RECURSIVE BreadthFirst(_, _, _)
BreadthFirst(f, queue, discovered) ==
    IF queue = <<>> THEN <<>>
    ELSE LET found == Fresh(Accepted(f, Head(queue)), discovered)
         IN  <<Head(queue)>> \o BreadthFirst(f, Tail(queue) \o found,
                                             discovered \cup Range(found))

\* C13: the result is the entry nodes, in the order given (each once, without
\* those of a seen set passed in), followed by the other nodes in breadth-first
\* discovery order, the successors of a node in the order of its get_reachable().
C13_ReachOrder ==
    Reached =>
        LET first == Fresh(obs.entry_nodes, obs.seen0)
        IN  /\ Len(obs.result) >= Len(first)
            /\ SubSeq(obs.result, 1, Len(first)) = first
            /\ obs.result = BreadthFirst(obs.node_validator, first,
                                         obs.seen0 \cup Range(first))

\* Two entry labels given against script order, and a walk that went on beyond them.
C13_Witness ==
    /\ Reached
    /\ obs.entry_nodes = <<13, 1>>
    /\ obs.node_validator = "any"
    /\ obs.seen0 = {}
    /\ Len(obs.result) > 12
    /\ obs.result[1] = 13
    /\ obs.result[2] = 1

\* The nodes reachable from a set along accepted edges, outside a seen set.
RECURSIVE Closure(_, _, _)
Closure(f, S, known) ==
    LET more == S \cup {m \in DOMAIN nodes \ known :
                          \E n \in S : m \in Range(Accepted(f, n))}
    IN  IF more = S THEN S ELSE Closure(f, more, known)

\* C14: the nodes returned are the entry nodes and the nodes reachable from them
\* along the edges the validator accepted (none of them in a seen set passed
\* in); a node returned that is no entry node has an accepted edge from a node
\* returned.
C14_ReachFilter ==
    Reached =>
        /\ Range(obs.result) =
              Closure(obs.node_validator, Range(obs.entry_nodes) \ obs.seen0, obs.seen0)
        /\ \A m \in Range(obs.result) \ Range(obs.entry_nodes) :
              \E n \in Range(obs.result) : m \in Range(Accepted(obs.node_validator, n))

\* A validator that rejects labels: the call statement and what follows it are
\* returned, the label it calls is not.
C14_Witness ==
    /\ Reached
    /\ obs.entry_nodes = <<12, 5>>
    /\ obs.node_validator = "no_label"
    /\ obs.seen0 = {}
    /\ 13 \in Range(get_reachable(nodes, 5))
    /\ 13 \notin Range(obs.result)
    /\ 7 \in Range(obs.result)

----------------------------------------------------------------------------
\* Claims about diff_info.

\* Two tuples are equal (tuples headed by different classes are not compared
\* further).
SameTuple(t, u) == Len(t) = Len(u) /\ t[1] = u[1] /\ t = u

\* The fields of a node that its execute() reads.
ExecuteFields(k) ==
    CASE k = "Say" -> {"who", "what", "with_"}
      [] k = "Label" -> {"name", "parameters"}
      [] k = "Python" -> {"code"}
      [] k = "Call" -> {"target", "expression", "arguments"}
      [] k = "Return" -> {"expression"}
      [] k = "Jump" -> {"target", "expression"}
      [] k = "While" -> {"condition"}
      [] k = "If" -> {"entries"}
      [] k = "Menu" -> {"items", "with_", "item_arguments"}
      [] k = "Translate" -> {"identifier", "language", "alternate"}
      [] k = "TranslateSay" -> {"who", "what", "with_", "identifier", "language", "alternate"}
      [] OTHER -> {}

\* C15: two nodes constructed independently from the same source input return
\* equal diff_info() tuples.
C15_DiffInfoStable ==
    (obs.op = "diff_info" /\ nodes[1] = nodes[2]) => SameTuple(obs.a, obs.b)

\* C16: two nodes of the same variant that differ in a field execute() reads
\* return different diff_info() tuples.
C16_DiffInfoDistinguishes ==
    (obs.op = "diff_info" /\ nodes[1].kind = nodes[2].kind
       /\ \E f \in ExecuteFields(nodes[1].kind) : nodes[1][f] # nodes[2][f])
    => ~SameTuple(obs.a, obs.b)

----------------------------------------------------------------------------
\* The next node and the outcome of execute().

\* The step that led here was the execute() of a statement.
Executed ==
    obs.op \in {"Pass", "Init", "TranslateBlock", "Python", "Label", "Call", "Return", "Jump", "While", "If",
                "Menu", "Say", "Translate", "TranslateSay", "EndTranslate"}

\* The step that led here was Return.execute in the init phase, the return
\* stack empty, developer mode off.
ReturnedFromInit ==
    /\ obs.op = "Return"
    /\ ctx.init_phase
    /\ ~obs.popped
    /\ ctx.return_stack = <<>>
    /\ ~config.developer

\* C17: whenever execute() of a statement raises, that execute() has already
\* called next_node.
C17_RaisesWithNextNode == (Executed /\ obs.raised) => obs.nn # <<>>

\* C18, as stated: every execute() that completes without raising has called
\* next_node during the call.
C18_Original == (Executed /\ ~obs.raised) => obs.nn # <<>>

\* C18, amended: every execute() that completes without raising has called
\* next_node during the call, except Return.execute in the init phase with an
\* empty return stack and developer mode off, which returns without calling it.
C18_CompletesWithNextNode ==
    (Executed /\ ~obs.raised) => (obs.nn = <<>> <=> ReturnedFromInit)

C18_Witness ==
    /\ obs.op = "Return"
    /\ ~obs.raised
    /\ ~ctx.init_phase
    /\ obs.nn = <<ctx.next_node>>
    /\ ctx.next_node # None

\* C19: Return.execute in the init phase with an empty return stack raises if
\* developer mode is on, and otherwise completes without changing the return
\* stack, the dynamic scopes, the next node or any store variable.
C19_ReturnInInit ==
    [][(At("Return") /\ ctx.init_phase /\ ctx.return_stack = <<>>)
          => IF config.developer
             THEN obs'.raised
             ELSE /\ ~obs'.raised
                  /\ ctx'.return_stack = ctx.return_stack
                  /\ ctx'.dynamic_stack = ctx.dynamic_stack
                  /\ obs'.nn = <<>>
                  /\ store' = store]_vars

----------------------------------------------------------------------------
\* Prediction of calls and jumps.

\* The step that led here was Call.predict or Jump.predict.
PredictedTransfer == obs.op \in {"Call.predict", "Jump.predict"}

\* The label the statement just predicted resolves to.
PredictedLabel ==
    IF nodes[ctx.next_node].expression THEN obs.label_out.val
    ELSE nodes[ctx.next_node].target

\* C20: Call.predict and Jump.predict never raise; they return the empty list
\* when the target expression fails to evaluate or the resolved label does not
\* exist, and otherwise the list holding the resolved target.
C20_PredictNeverRaises ==
    PredictedTransfer =>
        /\ ~obs.raised
        /\ obs.predicted =
              IF \/ nodes[ctx.next_node].expression /\ ~obs.label_out.ok
                 \/ ~has_label(nodes, PredictedLabel)
              THEN <<>>
              ELSE <<lookup_or_none(nodes, LabelName(PredictedLabel))>>

----------------------------------------------------------------------------
\* Lookahead.

\* The step that led here was a predict() or a scry() of a statement.
LookedAhead == obs.op \in {"predict", "scry"}

\* C21: an evaluator failure during predict() or scry() is swallowed: the call
\* returns normally instead of raising.
C21_LookaheadSwallows == (LookedAhead /\ obs.failed) => ~obs.raised

\* C22: predict() leaves the live execution context and the store variables as
\* they were before the call, also when it raises part-way.
C22_PredictKeepsContext ==
    [][obs'.op = "predict" => (ctx' = ctx /\ store' = store)]_vars

C22_Witness ==
    /\ obs.op = "predict"
    /\ nodes[ctx.next_node].kind = "Say"
    /\ obs.raised
    /\ ctx.say_attributes # NoneStr
    /\ ctx.say_attributes # nodes[ctx.next_node].attributes

\* C23: Scry.next never raises; it returns None when no next node is recorded or
\* when the scry() of the next node raises, else the Scry that scry() returns.
C23_ScryNext ==
    [][obs'.op = "Scry.next" =>
          LET rv == obs.scry[1]
              inner == scry(Predicting("Scry.next"), rv._next, obs'.inp[1])
          IN  /\ ~obs'.raised
              /\ obs'.scry = IF rv._next = None THEN <<>>
                             ELSE IF inner.obs.raised THEN <<>>
                             ELSE inner.obs.scry]_vars

C23_Witness ==
    /\ obs.op = "Scry.next"
    /\ obs.scry = <<>>
    /\ obs.failed

----------------------------------------------------------------------------
\* The pending call arguments.

\* No call arguments are pending.
NoPending == store._args = ArgsNone /\ store._kwargs = ArgsNone

\* C24: after Label.execute completes no call arguments are pending; a Call
\* without arguments leaves none pending; so arguments are pending at a Label
\* only when the statement just executed is the Call with arguments that
\* transferred control to it.
C24_ArgumentsDelivered ==
    /\ (obs.op = "Label" /\ ~obs.raised) => NoPending
    /\ (obs.op = "Call" /\ ~obs.raised /\ ~Self.arguments) => NoPending
    /\ (At("Label") /\ ~NoPending) =>
          /\ obs.op = "Call" /\ ~obs.raised
          /\ Self.arguments
          /\ obs.nn = <<ctx.next_node>>

\* The label with a parameter, which the call with arguments of the script
\* called earlier, is reached again by the jump and finds nothing pending.
C24_Witness ==
    /\ At("Label")
    /\ obs.op = "Jump" /\ ctx.current = 9
    /\ nodes[ctx.next_node].parameters.present
    /\ store.x # nodes[ctx.next_node].parameters.default
    /\ NoPending

----------------------------------------------------------------------------
\* The abnormal flag.

\* C25, as stated: execute() sets the abnormal flag exactly when the statement is
\* a Call, a Jump or a Return.
C25_Original ==
    (Executed /\ ~obs.raised) => (ctx.abnormal <=> obs.op \in {"Call", "Jump", "Return"})

\* C25, amended: Call.execute and Jump.execute each set the abnormal flag when
\* they complete; Return.execute does not set it, and no other statement's
\* execute() sets it.
C25_AbnormalFlag ==
    /\ (Executed /\ ~obs.raised) => (ctx.abnormal <=> obs.op \in {"Call", "Jump"})
    /\ (Executed /\ obs.op \notin {"Call", "Jump"}) => ~ctx.abnormal

\* A Return has transferred control to a return site.
C25_Witness ==
    /\ obs.op = "Return"
    /\ ~obs.raised
    /\ obs.popped
    /\ ctx.next_node # None
    /\ ~ctx.abnormal

----------------------------------------------------------------------------
\* Default statements.

\* The default statement of the execute_default step that leads to the next
\* state, and whether it was called at start.
Defaulting == nodes[obs'.inp[1].n]

AtStart == obs'.inp[1].start

\* C26: execute_default on a normal store for a variable already in the defaults
\* set raises only at start in developer mode; otherwise it returns with the
\* variables, the defaults set and the ever-changed set unchanged.
C26_DefaultAgain ==
    [][(/\ obs'.op = "execute_default"
        /\ Defaulting.store \notin special_namespaces
        /\ Defaulting.varname \in store.defaults_set)
          => /\ obs'.raised <=> (AtStart /\ config.developer)
             /\ ~obs'.raised => store' = store]_vars

\* x is defaulted a second time, after the start, and nothing happens.
C26_Witness ==
    /\ obs.op = "execute_default"
    /\ obs.inp[1].n = 3
    /\ ~obs.inp[1].start
    /\ ~obs.raised
    /\ config.developer
    /\ "x" \in store.defaults_set
    /\ store.d["x"] = 0

\* C27: execute_default on a normal store for a variable not yet defaulted, when
\* it completes, has assigned the default value if called at start or if the
\* variable was never changed and has left the value alone otherwise; the
\* variable is then in the defaults set and in the ever-changed set; and the
\* defaults set is always a subset of the ever-changed set.
C27_DefaultFirst ==
    /\ [](store.defaults_set \subseteq store.ever_been_changed)
    /\ [][(/\ obs'.op = "execute_default"
           /\ ~obs'.raised
           /\ Defaulting.store \notin special_namespaces
           /\ Defaulting.varname \notin store.defaults_set)
             => LET v == Defaulting.varname
                IN  /\ store'.d[v] = IF AtStart \/ v \notin store.ever_been_changed
                                     THEN obs'.inp[1].value_out.val
                                     ELSE store.d[v]
                    /\ \A w \in DefaultVars \ {v} : store'.d[w] = store.d[w]
                    /\ v \in store'.defaults_set
                    /\ v \in store'.ever_been_changed]_vars

\* x was assigned by the game before its first default ran after the start: it
\* keeps its value and is recorded as defaulted.
C27_Witness ==
    /\ obs.op = "execute_default"
    /\ obs.inp[1].n = 1
    /\ ~obs.inp[1].start
    /\ ~obs.raised
    /\ store.d["x"] = 1
    /\ "x" \in store.defaults_set
    /\ "y" \notin store.defaults_set

\* ---------------------------------------------------------------------------
\* C28: after any sequence of assignments to a node's name (a string, a triple
\* for the node's own file, a longer tuple, or None), reading name returns the
\* value most recently assigned.
\* ---------------------------------------------------------------------------
C28_NameRoundTrip == obs.op = "name" => obs.name = obs.value

\* ---------------------------------------------------------------------------
\* C29: get_reachable() of a Call or Jump whose target is an expression returns
\* no label target, only the statically chained next node, if any, whatever
\* label the text of the expression names; so a walk passes such a statement
\* to its next node only.
\* ---------------------------------------------------------------------------
DynamicTransfer(n) == nodes[n].kind \in {"Call", "Jump"} /\ nodes[n].expression

C29_NoDynamicTarget ==
    /\ \A n \in DOMAIN nodes :
          DynamicTransfer(n) =>
              get_reachable(nodes, n) = IF nodes[n].next = None THEN <<>> ELSE <<nodes[n].next>>
    /\ (Reached /\ obs.node_validator = "any") =>
          \A m \in Range(obs.result) \ Range(obs.entry_nodes) :
              \E n \in Range(obs.result) :
                  /\ m \in Range(get_reachable(nodes, n))
                  /\ DynamicTransfer(n) => m = nodes[n].next

\* A walk from the label whose call names, as an expression, a text that is
\* also a label: the call and its next node are returned, that label is not.
C29_Witness ==
    /\ Reached
    /\ obs.entry_nodes = <<20>>
    /\ obs.node_validator = "any"
    /\ obs.seen0 = {}
    /\ DynamicTransfer(21)
    /\ lookup_or_none(nodes, LabelName(nodes[21].target)) = 1
    /\ obs.result = <<20, 21, 22>>

\* ---------------------------------------------------------------------------
\* C30: each node that execute() installs as the next node from statically
\* known information (not through an evaluated label expression or the return
\* stack) is contained in get_reachable() of the statement; for a canonical
\* Translate or TranslateSay this includes the variant of the active language.
\* ---------------------------------------------------------------------------
StaticTransfer ==
    /\ Executed
    /\ ctx.current # None
    /\ ctx.next_node # None
    /\ ~DynamicTransfer(ctx.current)
    /\ Self.kind # "Return"

C30_StaticSuccessors ==
    StaticTransfer => ctx.next_node \in Range(get_reachable(nodes, ctx.current))

\* ---------------------------------------------------------------------------
\* C31: when control normally leaves the block of a translate statement, in any
\* language, it continues at the statement that follows the canonical
\* (language None) translate statement of that identifier.
\* ---------------------------------------------------------------------------
\* The translate statements with a block that have a canonical form.
BlockTranslates ==
    {t \in DOMAIN nodes : /\ nodes[t].kind = "Translate"
                          /\ nodes[t].block # <<>>
                          /\ default_translates(nodes, nodes[t].identifier) # None}

\* The statement after the canonical translate statement of t's identifier.
CanonicalAfter(t) == nodes[default_translates(nodes, nodes[t].identifier)].after

LastOf(t) == nodes[t].block[Len(nodes[t].block)]

C31_LeavesToCanonicalAfter ==
    \A t \in BlockTranslates :
        /\ nodes[LastOf(t)].kind \notin {"Return", "Jump"} =>
              nodes[LastOf(t)].next = CanonicalAfter(t)
        /\ (/\ Executed /\ ~obs.raised
            /\ ctx.current = LastOf(t)
            /\ obs.nn = <<nodes[ctx.current].next>>) =>
              ctx.next_node = CanonicalAfter(t)

\* The line of the French block has been said, and control is at the
\* EndTranslate that follows the canonical translate statement.
C31_Witness ==
    /\ Executed /\ ~obs.raised
    /\ config.language = "fr"
    /\ ctx.current = 12
    /\ 11 \in BlockTranslates /\ nodes[11].language = "fr"
    /\ LastOf(11) = 12
    /\ ctx.next_node = nodes[2].after
    /\ nodes[ctx.next_node].kind = "EndTranslate"

\* ---------------------------------------------------------------------------
\* C32: EndTranslate.execute, and every TranslateSay.execute that speaks (also
\* when the say fails), leave the current and the alternate translation
\* identifier None; so once control has passed a canonical translate statement,
\* the selected block and the closing EndTranslate, no identifier is active.
\* ---------------------------------------------------------------------------
NoTranslateActive ==
    /\ ctx.translate_identifier = NoneStr
    /\ ctx.alternate_translate_identifier = NoneStr

\* The TranslateSay just executed spoke its own line (it did not dispatch to a
\* translation).
Spoke ==
    /\ obs.op = "TranslateSay"
    /\ \/ Self.language # NoneStr
       \/ lookup_translate(nodes, config.language, Self.identifier, Self.alternate)
             \in {None, ctx.current}

C32_IdentifiersCleared ==
    /\ obs.op = "EndTranslate" => NoTranslateActive
    /\ Spoke => NoTranslateActive

\* The French line under the alternate identifier was run and its say failed.
C32_Witness ==
    /\ Spoke
    /\ obs.raised
    /\ Self.language = "fr"
    /\ config.language = "fr"
    /\ NoTranslateActive

\* ---------------------------------------------------------------------------
\* C33: normal execution of an Init or TranslateBlock never enters its block:
\* execute() sets the next node to the statement that follows the node, and
\* the chain of the block ends with no successor instead of that statement.
\* ---------------------------------------------------------------------------
SkippedBlocks ==
    {n \in DOMAIN nodes : nodes[n].kind \in {"Init", "TranslateBlock"} /\ nodes[n].block # <<>>}

C33_BlockSkipped ==
    /\ \A n \in SkippedBlocks :
          LET p == NextPath(nodes, nodes[n].block[1], {})
          IN  /\ EndsAtNone(nodes, p)
              /\ Occurrences(p, n) = 0
              /\ nodes[n].next # None => Occurrences(p, nodes[n].next) = 0
    /\ obs.op \in {"Init", "TranslateBlock"} =>
          /\ ~obs.raised
          /\ obs.nn = <<Self.next>>
          /\ ctx.next_node = Self.next
          /\ ctx.next_node \notin Range(Self.block)

\* The translate block inside a label has been executed in the game: control
\* is at the statement after it, which the chain of its block does not reach.
C33_Witness ==
    /\ obs.op = "TranslateBlock"
    /\ ~ctx.init_phase
    /\ ctx.current = 23
    /\ nodes[23].block = <<24>>
    /\ nodes[24].next = None
    /\ ctx.next_node = 25

\* ---------------------------------------------------------------------------
\* C34: when Menu.execute fails after it has started collecting choices, the
\* next node is the first statement of the last choice with a block processed
\* so far, and the statement after the menu when no such choice was processed.
\* ---------------------------------------------------------------------------
\* The choices with a block among those collected by the menu just executed.
BlockChoices == SelectSeq(obs.choices, LAMBDA c : c.value # None)

LastBlockChoice == BlockChoices[Len(BlockChoices)]

C34_MenuFailure ==
    (obs.op = "Menu" /\ obs.raised) =>
        /\ ctx.next_node = IF BlockChoices = <<>> THEN Self.next
                           ELSE Self.items[LastBlockChoice.item].block[1]
        /\ ctx.next_node = Self.next => BlockChoices = <<>>

\* The arguments of the first choice with a block failed to evaluate, with a
\* second such choice still to come: the next node is the block of the first.
C34_Witness ==
    /\ obs.op = "Menu" /\ obs.raised
    /\ ctx.current = 2
    /\ Len(BlockChoices) = 1
    /\ ctx.next_node = 3
    /\ Self.next = 6

\* ---------------------------------------------------------------------------
\* C35: Call.execute pushes the return site and sets the next node to the
\* target before it evaluates the arguments of the call; when that evaluation
\* raises, the return stack holds the new entry, the next node is the target
\* label, the abnormal flag is set, and _args and _kwargs are as before.
\* ---------------------------------------------------------------------------
\* The Call.execute that leads to the next state failed evaluating its arguments.
ArgumentsFailed ==
    /\ obs'.op = "Call"
    /\ obs'.raised
    /\ obs'.evals # <<>>
    /\ obs'.evals[Len(obs'.evals)] = "arguments"

C35_CallArgumentsFail ==
    [][ArgumentsFailed =>
          LET self == nodes[ctx'.current]
              label == IF self.expression THEN obs'.label_out.val ELSE self.target
          IN  /\ ctx'.return_stack = Append(ctx.return_stack, NameOf(nodes, self.next))
              /\ ctx'.next_node = lookup_or_none(nodes, LabelName(label))
              /\ ctx'.next_node # None
              /\ ctx'.abnormal
              /\ store'._args = store._args
              /\ store'._kwargs = store._kwargs]_vars

\* The call with arguments failed evaluating them, inside an outer call: two
\* return sites are on the stack and the label is the next node.
C35_Witness ==
    /\ obs.op = "Call"
    /\ obs.raised
    /\ obs.evals = <<"arguments">>
    /\ ctx.current = 3
    /\ Len(ctx.return_stack) = 2
    /\ ctx.next_node = 18
    /\ ctx.abnormal

\* ---------------------------------------------------------------------------
\* C36: after n.replace_next(old, new), n.next is new wherever it was old, and
\* for While, If, Menu, Translate and UserStatement each owned block that
\* started with old starts with new; links that did not point to old, and
\* every other node, are unchanged; so each transfer that n.execute() made to
\* old through these links goes to new, and every other one goes where it did.
\* ---------------------------------------------------------------------------
\* The node execute() installs, on the script ns.
WhileNext(ns, n, c) == While_execute([Machine EXCEPT !.nodes = ns, !.obs = NoObs], n, c).ctx.next_node

IfNext(ns, n, cs) == If_execute([Machine EXCEPT !.nodes = ns, !.obs = NoObs], n, cs).ctx.next_node

MenuNext(ns, n, inp) ==
    Menu_execute([Machine EXCEPT !.nodes = ns, !.obs = NoObs], n, inp).ctx.next_node

TranslateNext(ns, n) ==
    Translate_execute([Machine EXCEPT !.nodes = ns, !.obs = NoObs], n).ctx.next_node

LabelNext(ns, n) == Label_execute([Machine EXCEPT !.nodes = ns, !.obs = NoObs], n).ctx.next_node

InitNext(ns, n) == Init_execute([Machine EXCEPT !.nodes = ns, !.obs = NoObs], n).ctx.next_node

Redirected(t0, t1, old, new) == t1 = IF t0 = old THEN new ELSE t0

BlockOwners == {"While", "If", "Menu", "Translate", "UserStatement"}

Inserts(b0, b1, old, new) == b1 = IF first_of(b0) = old THEN <<new>> \o b0 ELSE b0

C36_ReplaceNext ==
    [][obs'.op = "replace_next" =>
          LET n == obs'.n
              old == obs'.old
              new == obs'.new
              a == nodes[n]
              b == nodes'[n]
          IN  /\ b.next = IF a.next = old THEN new ELSE a.next
              /\ \A k \in DOMAIN nodes \ {n} : nodes'[k] = nodes[k]
              /\ IF a.kind \in BlockOwners
                 THEN /\ Inserts(a.block, b.block, old, new)
                      /\ DOMAIN b.entries = DOMAIN a.entries
                      /\ \A i \in DOMAIN a.entries :
                            Inserts(a.entries[i].block, b.entries[i].block, old, new)
                      /\ DOMAIN b.items = DOMAIN a.items
                      /\ \A i \in DOMAIN a.items :
                            Inserts(a.items[i].block, b.items[i].block, old, new)
                 ELSE b.block = a.block /\ b.entries = a.entries /\ b.items = a.items
              /\ a.kind = "While" =>
                    \A c \in CondOutcomes :
                        Redirected(WhileNext(nodes, n, c), WhileNext(nodes', n, c), old, new)
              /\ a.kind = "If" =>
                    \A cs \in [DOMAIN a.entries -> CondOutcomes] :
                        Redirected(IfNext(nodes, n, cs), IfNext(nodes', n, cs), old, new)
              /\ a.kind = "Menu" =>
                    \A inp \in MenuInputs(a) :
                        Redirected(MenuNext(nodes, n, inp), MenuNext(nodes', n, inp), old, new)
              /\ a.kind = "Translate" =>
                    Redirected(TranslateNext(nodes, n), TranslateNext(nodes', n), old, new)
              /\ a.kind = "Label" =>
                    Redirected(LabelNext(nodes, n), LabelNext(nodes', n), old, new)
              /\ a.kind \in {"Init", "TranslateBlock", "Pass"} =>
                    Redirected(InitNext(nodes, n), InitNext(nodes', n), old, new)]_vars

\* The first statement of the loop body was replaced, and then the statement
\* put in its place: the body starts with the second inserted statement, and
\* the statement after the loop is as it was.
C36_Witness ==
    /\ obs.op = "replace_next"
    /\ obs.calls = 2
    /\ obs.n = 2
    /\ obs.old = Inserted(1)
    /\ nodes[2].block = <<Inserted(2), Inserted(1), 3, 4>>
    /\ nodes[2].next = 5

\* ---------------------------------------------------------------------------
\* C37: with a seen set passed to get_reachable_nodes, the nodes already in it
\* are neither returned nor expanded and every node returned is added to it;
\* so the results of successive calls that share one seen set are pairwise
\* disjoint, and their union is the result of a single call on the combined
\* entry list.
\* ---------------------------------------------------------------------------
C37_SharedSeen ==
    /\ [](obs.op = "reach" =>
            /\ Range(obs.result) \cap obs.seen0 = {}
            /\ obs.seen = obs.seen0 \cup Range(obs.result)
            /\ Range(obs.result) \cap Range(obs.prev_result) = {}
            /\ NoDuplicates(obs.prev_result \o obs.result)
            /\ obs.returned =>
                  Range(obs.prev_result) \cup Range(obs.result) =
                      Closure(obs.node_validator,
                              Range(obs.prev_entries \o obs.entry_nodes) \ obs.seen_start,
                              obs.seen_start))
    /\ [][(Reaching /\ obs.worklist # <<>> /\ Head(obs.worklist) \in obs.seen) =>
             obs' = [obs EXCEPT !.worklist = Tail(@)]]_vars

\* A second call on the seen set of a first one, from a label the first walk
\* had reached through a call: its entry node is not returned again, and it
\* returns what the first walk, which started inside an already seen label,
\* had not reached.
C37_Witness ==
    /\ Reached
    /\ obs.calls = 2
    /\ obs.node_validator = "any"
    /\ obs.seen_start = {1, 15}
    /\ obs.prev_entries = <<12, 5>>
    /\ obs.entry_nodes = <<20>>
    /\ 13 \in Range(obs.prev_result)
    /\ obs.result # <<>>
    /\ Range(obs.result) \cap obs.seen0 = {}

\* ---------------------------------------------------------------------------
\* C38: applying __setstate__ to the tuple that __getstate__ produced yields an
\* object with the same source, filename, line number, mode, py version,
\* hashcode and column offset as the original.
\* ---------------------------------------------------------------------------
C38_StateRoundTrip ==
    obs.op = "__setstate__" =>
        /\ obs.code.source = obs.before.source
        /\ obs.code.filename = obs.before.filename
        /\ obs.code.linenumber = obs.before.linenumber
        /\ obs.code.mode = obs.before.mode
        /\ obs.code.py = obs.before.py
        /\ obs.code.hashcode = obs.before.hashcode
        /\ obs.code.col_offset = obs.before.col_offset

\* ---------------------------------------------------------------------------
\* C39: a PyCode constructed with mode 'exec' or 'hide' stores the dedented
\* source and the width of the removed common margin as col_offset; one
\* constructed with mode 'eval' stores the source unchanged with col_offset 0.
\* ---------------------------------------------------------------------------
C39_ConstructedSource ==
    obs.op = "__init__" =>
        IF obs.mode \in {"exec", "hide"}
        THEN /\ obs.code.source = dedent(obs.source).text
             /\ obs.code.col_offset = dedent(obs.source).col_offset
        ELSE /\ obs.code.source = obs.source
             /\ obs.code.col_offset = 0

====
